---- MODULE Spec2Model ----
(***************************************************************************)
(* Model of scripts/generate_from_openapi_v2.py: the OpenAPI -> Rust        *)
(* generator.  Strings that the code inspects character by character        *)
(* (schema names, property names, identifiers) are sequences of one-        *)
(* character strings; Rust type expressions are sequences of tokens in      *)
(* which a keyword such as "Option<" is one token and a schema name         *)
(* contributes its characters.  A Python dict is a function whose DOMAIN    *)
(* is the set of keys that are present, so `'k' in d` is "k" \in DOMAIN d.  *)
(* A "$ref" value is modelled by its last path segment, which is all the    *)
(* code reads of it (split('/')[-1]).  generate_enum is taken from         *)
(* scripts/generate_from_openapi.py, and the coverage checker of            *)
(* scripts/check-api-coverage.py is modelled in a section of its own.       *)
(***************************************************************************)
EXTENDS Integers, Sequences, FiniteSets, TLC

VARIABLES
    \* generate_module / main
    schemas,          \* components.schemas of the loaded document
    paths,            \* the document's (path, method, operation) items, in order
    pc,               \* position in the run
    used_schemas,     \* generate_module: used_schemas
    remaining,        \* generate_module: remaining
    set_order,        \* the order in which this process's set `remaining` hands
                      \* out its elements (fixed by the process's string hashes)
    scan,             \* generate_module: list(remaining) still to be iterated
    sorted_schemas,   \* generate_module: sorted_schemas
    module,           \* the module text returned by generate_module
    run,              \* which run of the program over the same document
    first_module,     \* the module text the first run returned
    \* rust_type_from_openapi / generate_struct called on their own
    t_schema, t_required, t_result,
    s_name, s_schema, s_result,
    \* to_snake_case / to_pascal_case called on their own
    n_name, n_snake, n_pascal,
    \* generate_handler_method called on one operation
    h_entry, h_result,
    \* clean_method_name called on its own
    c_operation_id, c_method, c_result,
    \* generate_enum called on one value list
    e_values, e_result,
    \* main: the document's tag list, the tags still to be generated, the
    \* files of the output directory, what the run has reported as written,
    \* and the files an earlier run over the same tags in another order left
    tags, todo, files, written, first_files,
    \* main: the command line, the file its first argument names, whether the
    \* output directory exists, and the exit status once the process has ended
    argv, spec_file, output_dir, exit_status,
    \* check-api-coverage.py: the parsed command line, the Enterprise handler
    \* directory with the calls its files make, the endpoints the routing
    \* table lists, the Cloud handler directory with its method counts, the
    \* two differences of the scoped comparison, and the exit status once
    \* the process has ended
    v_args, v_enterprise, v_routing_table, v_cloud, v_missing, v_extra, v_exit

vars == <<schemas, paths, pc, used_schemas, remaining, set_order, scan, sorted_schemas,
          module, run, first_module, t_schema, t_required, t_result,
          s_name, s_schema, s_result, n_name, n_snake, n_pascal,
          h_entry, h_result, c_operation_id, c_method, c_result,
          e_values, e_result, tags, todo, files, written, first_files,
          argv, spec_file, output_dir, exit_status,
          v_args, v_enterprise, v_routing_table, v_cloud, v_missing, v_extra,
          v_exit>>

module_vars == <<schemas, paths, used_schemas, remaining, set_order, scan,
                 sorted_schemas, module, run, first_module>>
type_vars == <<t_schema, t_required, t_result>>
struct_vars == <<s_name, s_schema, s_result>>
name_vars == <<n_name, n_snake, n_pascal>>
method_vars == <<h_entry, h_result>>
clean_vars == <<c_operation_id, c_method, c_result>>
enum_vars == <<e_values, e_result>>
main_vars == <<tags, todo, files, written, first_files,
               argv, spec_file, output_dir, exit_status>>
coverage_vars == <<v_args, v_enterprise, v_routing_table, v_cloud, v_missing,
                   v_extra, v_exit>>
call_vars == <<method_vars, clean_vars, enum_vars, main_vars, coverage_vars>>

None == "None"

(***************************************************************************)
(* Characters                                                              *)
(***************************************************************************)
LowerLetters == <<"a", "b", "c", "d", "e", "f", "g", "h", "i", "j", "k", "l", "m",
                  "n", "o", "p", "q", "r", "s", "t", "u", "v", "w", "x", "y", "z">>
UpperLetters == <<"A", "B", "C", "D", "E", "F", "G", "H", "I", "J", "K", "L", "M",
                  "N", "O", "P", "Q", "R", "S", "T", "U", "V", "W", "X", "Y", "Z">>
LowerChars == {LowerLetters[i] : i \in 1..Len(LowerLetters)}
UpperChars == {UpperLetters[i] : i \in 1..Len(UpperLetters)}
DigitChars == {"0", "1", "2", "3", "4", "5", "6", "7", "8", "9"}

\* str.islower / str.isupper on one character
IsLower(c) == c \in LowerChars
IsUpper(c) == c \in UpperChars

\* str.upper on one character
UpperOf(c) ==
    IF c \in LowerChars
    THEN UpperLetters[CHOOSE i \in 1..Len(LowerLetters) : LowerLetters[i] = c]
    ELSE c

\* str.lower on one character
LowerOf(c) ==
    IF c \in UpperChars
    THEN LowerLetters[CHOOSE i \in 1..Len(UpperLetters) : UpperLetters[i] = c]
    ELSE c

\* str.lower
Lower(s) == [i \in 1..Len(s) |-> LowerOf(s[i])]

\* str.capitalize: the first character upper-cased, all the others lower-cased
Capitalize(s) ==
    [i \in 1..Len(s) |-> IF i = 1 THEN UpperOf(s[i]) ELSE LowerOf(s[i])]

\* F applied to the value of x: x is evaluated once, before F's body reads it
ByValue(F(_), x) == CHOOSE r \in {F(v) : v \in {x}} : TRUE

\* str.startswith
StartsWith(s, prefix) ==
    /\ Len(prefix) <= Len(s)
    /\ SubSeq(s, 1, Len(prefix)) = prefix

(***************************************************************************)
(* to_snake_case, to_pascal_case                                           *)
(***************************************************************************)
\* The last index of the run of capitals that starts at i (s[i] is a capital).
RECURSIVE RunEnd(_, _)
RunEnd(s, i) ==
    IF i < Len(s) /\ IsUpper(s[i + 1]) THEN RunEnd(s, i + 1) ELSE i

\* re.sub(r'([A-Z]+)([A-Z][a-z])', r'\1_\2', s) from position i on: the
\* leftmost match at i is a run of at least two capitals followed by a
\* lower-case letter; the greedy first group takes all but the last capital.
RECURSIVE SubAcronym(_, _)
SubAcronym(s, i) ==
    IF i > Len(s) THEN <<>>
    ELSE IF IsUpper(s[i])
            /\ RunEnd(s, i) > i
            /\ RunEnd(s, i) < Len(s)
            /\ IsLower(s[RunEnd(s, i) + 1])
         THEN LET j == RunEnd(s, i)
              IN  SubSeq(s, i, j - 1) \o <<"_">> \o SubSeq(s, j, j + 1)
                    \o SubAcronym(s, j + 2)
         ELSE <<s[i]>> \o SubAcronym(s, i + 1)

\* re.sub(r'([a-z\d])([A-Z])', r'\1_\2', s) from position i on
RECURSIVE SubCapital(_, _)
SubCapital(s, i) ==
    IF i > Len(s) THEN <<>>
    ELSE IF i < Len(s)
            /\ (IsLower(s[i]) \/ s[i] \in DigitChars)
            /\ IsUpper(s[i + 1])
         THEN <<s[i], "_", s[i + 1]>> \o SubCapital(s, i + 2)
         ELSE <<s[i]>> \o SubCapital(s, i + 1)

\* to_snake_case without its first substitution (the acronym rule)
to_snake_case_no_acronym(name) == Lower(SubCapital(name, 1))

to_snake_case(name) ==
    ByValue(LAMBDA n :
                ByValue(LAMBDA acronyms_split :
                            ByValue(Lower, SubCapital(acronyms_split, 1)),
                        SubAcronym(n, 1)),
            name)

\* str.split('_'): the words between the underscores, empty words included
RECURSIVE SplitUnderscore(_, _, _)
SplitUnderscore(s, i, word) ==
    IF i > Len(s) THEN <<word>>
    ELSE IF s[i] = "_" THEN <<word>> \o SplitUnderscore(s, i + 1, <<>>)
    ELSE SplitUnderscore(s, i + 1, Append(word, s[i]))

\* ''.join(words)
RECURSIVE Join(_)
Join(words) == IF words = <<>> THEN <<>> ELSE Head(words) \o Join(Tail(words))

to_pascal_case(name) ==
    ByValue(LAMBDA words : Join([k \in 1..Len(words) |-> Capitalize(words[k])]),
            SplitUnderscore(name, 1, <<>>))

(***************************************************************************)
(* clean_method_name                                                       *)
(***************************************************************************)
\* str.replace(old, new): every occurrence of old, left to right, not overlapping
RECURSIVE Replace(_, _, _)
Replace(s, old, new) ==
    IF s = <<>> THEN <<>>
    ELSE IF StartsWith(s, old)
         THEN new \o Replace(SubSeq(s, Len(old) + 1, Len(s)), old, new)
    ELSE <<Head(s)>> \o Replace(Tail(s), old, new)

\* `sub in s`
Contains(s, sub) ==
    \E i \in 1..(Len(s) - Len(sub) + 1) : SubSeq(s, i, i + Len(sub) - 1) = sub

\* s[n:]
DropFirst(s, n) == SubSeq(s, n + 1, Len(s))

GetWord == <<"g", "e", "t">>
PostWord == <<"p", "o", "s", "t">>
PutWord == <<"p", "u", "t">>
DeleteWord == <<"d", "e", "l", "e", "t", "e">>
PatchWord == <<"p", "a", "t", "c", "h">>
ListWord == <<"l", "i", "s", "t">>
CreateWord == <<"c", "r", "e", "a", "t", "e">>
UpdateWord == <<"u", "p", "d", "a", "t", "e">>

\* The verb as the characters of its name
MethodChars(m) ==
    CASE m = "get" -> GetWord [] m = "post" -> PostWord [] m = "put" -> PutWord
      [] m = "patch" -> PatchWord [] m = "delete" -> DeleteWord
      [] OTHER -> <<"o", "p", "t", "i", "o", "n", "s">>

\* for prefix in ['get', 'post', 'put', 'delete', 'patch']: the prefixes
\* from the k-th on, each removed when the name so far starts with it
RECURSIVE StripPrefixes(_, _, _)
StripPrefixes(name, prefixes, k) ==
    IF k > Len(prefixes) THEN name
    ELSE StripPrefixes(IF StartsWith(Lower(name), prefixes[k])
                       THEN DropFirst(name, Len(prefixes[k])) ELSE name,
                       prefixes, k + 1)

\* replacements.items(), in the order the dict literal lists them
replacements ==
    << <<GetWord \o <<"_", "a", "l", "l", "_">>, ListWord \o <<"_">> >>,
       <<GetWord \o <<"_">>, <<>> >>,
       << <<"_", "b", "y", "_", "i", "d">>, <<>> >>,
       <<CreateWord \o <<"_">>, CreateWord \o <<"_">> >>,
       <<UpdateWord \o <<"_">>, UpdateWord \o <<"_">> >>,
       <<DeleteWord \o <<"_">>, DeleteWord \o <<"_">> >> >>

\* for old, new in replacements.items(): from the k-th pair on
RECURSIVE ApplyReplacements(_, _)
ApplyReplacements(name, k) ==
    IF k > Len(replacements) THEN name
    ELSE ApplyReplacements(IF StartsWith(name, replacements[k][1])
                           THEN replacements[k][2]
                                  \o DropFirst(name, Len(replacements[k][1]))
                           ELSE name,
                           k + 1)

\* The special cases, with the delete case left out
SpecialCasesNoDelete(name, operation_id, method) ==
    IF method = "get" /\ name = <<>> THEN GetWord
    ELSE IF method = "get" /\ ~StartsWith(name, ListWord) /\ ~StartsWith(name, GetWord)
         THEN GetWord \o <<"_">> \o name
    ELSE IF method = "post" /\ ~StartsWith(name, CreateWord)
         THEN (IF Contains(Lower(operation_id), CreateWord)
               THEN CreateWord \o <<"_">> \o name ELSE name)
    ELSE name

\* Special cases
SpecialCases(name, operation_id, method) ==
    IF method = "get" /\ name = <<>> THEN GetWord
    ELSE IF method = "get" /\ ~StartsWith(name, ListWord) /\ ~StartsWith(name, GetWord)
         THEN GetWord \o <<"_">> \o name
    ELSE IF method = "post" /\ ~StartsWith(name, CreateWord)
         THEN (IF Contains(Lower(operation_id), CreateWord)
               THEN CreateWord \o <<"_">> \o name ELSE name)
    ELSE IF method = "delete" /\ ~StartsWith(name, DeleteWord)
         THEN (IF name # <<>> THEN DeleteWord \o <<"_">> \o name ELSE DeleteWord)
    ELSE name

clean_method_name(operation_id, method) ==
    ByValue(LAMBDA id :
                ByValue(LAMBDA stripped :
                            ByValue(LAMBDA snake :
                                        ByValue(LAMBDA name : SpecialCases(name, id, method),
                                                ApplyReplacements(snake, 1)),
                                    to_snake_case(stripped)),
                        StripPrefixes(id, <<GetWord, PostWord, PutWord, DeleteWord,
                                            PatchWord>>, 1)),
            operation_id)

(***************************************************************************)
(* generate_enum (scripts/generate_from_openapi.py, whose to_pascal_case   *)
(* is the same function as the one above)                                  *)
(***************************************************************************)
\* str.isupper / str.islower: a cased character, and none of the other case
IsUpperStr(v) ==
    /\ \E i \in 1..Len(v) : IsUpper(v[i])
    /\ \A i \in 1..Len(v) : ~IsLower(v[i])
IsLowerStr(v) ==
    /\ \E i \in 1..Len(v) : IsLower(v[i])
    /\ \A i \in 1..Len(v) : ~IsUpper(v[i])

\* Determine serialization format: the rename_all line, or None for no line
RenameAll(values) ==
    IF \E k \in 1..Len(values) : \E i \in 1..Len(values[k]) : values[k][i] = "-"
    THEN "kebab-case"
    ELSE IF \A k \in 1..Len(values) : IsUpperStr(values[k]) THEN "UPPERCASE"
    ELSE IF \A k \in 1..Len(values) : IsLowerStr(values[k]) THEN "lowercase"
    ELSE None

\* to_pascal_case(value.replace('-', '_').replace('.', '_'))
VariantName(value) ==
    to_pascal_case(Replace(Replace(value, <<"-">>, <<"_">>), <<".">>, <<"_">>))

\* One variant, never given a rename line
EnumVariantNoRename(value) == [rename |-> <<>>, variant |-> VariantName(value)]

\* One variant: its rename line when the value is not the variant name, and its name
EnumVariant(value) ==
    [ rename |-> IF value # VariantName(value) THEN <<value>> ELSE <<>>,
      variant |-> VariantName(value) ]

generate_enum(name, values) ==
    [ name |-> name,
      rename_all |-> RenameAll(values),
      variants |-> [k \in 1..Len(values) |-> EnumVariant(values[k])] ]

(***************************************************************************)
(* rust_type_from_openapi                                                  *)
(***************************************************************************)
EmptySchema == [k \in {} |-> None]

\* schema.get('type', 'object') and schema.get('format', '')
TypeStr(schema) == IF "type" \in DOMAIN schema THEN schema.type ELSE "object"
FormatStr(schema) == IF "format" \in DOMAIN schema THEN schema.format ELSE ""

\* type_map
type_map ==
    [p \in { <<"string", "uuid">>, <<"string", "date-time">>, <<"string", "date">>,
             <<"string", "binary">>, <<"string", "">>, <<"integer", "int32">>,
             <<"integer", "int64">>, <<"integer", "">>, <<"number", "float">>,
             <<"number", "double">>, <<"number", "">>, <<"boolean", "">>,
             <<"object", "">> } |->
        CASE p = <<"string", "binary">> -> <<"Vec<u8>">>
          [] p[1] = "string" -> <<"String">>
          [] p = <<"integer", "int64">> -> <<"i64">>
          [] p[1] = "integer" -> <<"i32">>
          [] p = <<"number", "float">> -> <<"f32">>
          [] p[1] = "number" -> <<"f64">>
          [] p[1] = "boolean" -> <<"bool">>
          [] OTHER -> <<"HashMap<String, Value>">>]

\* type_map.get((type_str, format_str), 'String'): another default
TypeMapGetStringDefault(type_str, format_str) ==
    IF <<type_str, format_str>> \in DOMAIN type_map
    THEN type_map[<<type_str, format_str>>]
    ELSE <<"String">>

\* type_map.get((type_str, format_str), 'Value')
TypeMapGet(type_str, format_str) ==
    IF <<type_str, format_str>> \in DOMAIN type_map
    THEN type_map[<<type_str, format_str>>]
    ELSE <<"Value">>

\* ref_name, capitalized when it starts with a lower-case letter
RefTypeName(ref_name) ==
    IF ref_name # <<>> /\ IsLower(ref_name[1]) THEN Capitalize(ref_name) ELSE ref_name

\* f'Option<{rust_type}>'
OptionOf(rust_type) == <<"Option<">> \o rust_type \o <<">">>
\* f'Vec<{item_type}>'
VecOf(item_type) == <<"Vec<">> \o item_type \o <<">">>

\* Wrap in Option if not required
WrapOptional(rust_type, required) ==
    IF ~required THEN OptionOf(rust_type) ELSE rust_type

RECURSIVE rust_type_from_openapi(_, _)
rust_type_from_openapi(schema, required) ==
    IF DOMAIN schema = {} THEN <<"Value">>
    ELSE IF "ref" \in DOMAIN schema
         THEN WrapOptional(RefTypeName(schema.ref), required)
    ELSE IF "enum" \in DOMAIN schema
         THEN (IF required THEN <<"String">> ELSE <<"Option<", "String", ">">>)
    ELSE LET type_str == TypeStr(schema)
             mapped == TypeMapGet(type_str, FormatStr(schema))
             rust_type ==
                 IF type_str = "array" /\ "items" \in DOMAIN schema
                 THEN VecOf(rust_type_from_openapi(schema.items, TRUE))
                 ELSE mapped
         IN  WrapOptional(rust_type, required)

(***************************************************************************)
(* generate_struct                                                         *)
(*                                                                         *)
(* An object schema's 'properties' dict is the sequence of its items in     *)
(* declaration order, each [name, schema]; 'required' is the set of the     *)
(* names it lists.  The struct text is kept as what its lines say: the      *)
(* declared name, whether the rename_all line is there, and per field its   *)
(* name, its type and which serde attribute lines precede it (an absent     *)
(* doc comment or rename line is the empty sequence).                      *)
(***************************************************************************)
Properties(schema) ==
    IF "properties" \in DOMAIN schema THEN schema.properties ELSE <<>>

PropertyNames(schema) ==
    {Properties(schema)[i].name : i \in 1..Len(Properties(schema))}

\* Fix lowercase struct names
StructName(name) ==
    IF name # <<>> /\ IsLower(name[1]) THEN Capitalize(name) ELSE name

\* any(k[0].islower() and any(c.isupper() for c in k) for k in properties.keys())
HasCamel(schema) ==
    \E k \in PropertyNames(schema) :
        IsLower(k[1]) /\ \E i \in 1..Len(k) : IsUpper(k[i])

ReservedWords ==
    { <<"t", "y", "p", "e">>, <<"r", "e", "f">>, <<"u", "s", "e">>, <<"m", "o", "d">>,
      <<"m", "a", "t", "c", "h">>, <<"m", "o", "v", "e">> }

LinksName == <<"l", "i", "n", "k", "s">>

\* The lines generate_struct emits for one property in its loop
StructField(prop, schema) ==
    LET snake == to_snake_case(prop.name)
        field_name == IF snake \in ReservedWords THEN <<"r", "#">> \o snake ELSE snake
        is_required ==
            "required" \in DOMAIN schema /\ prop.name \in schema.required
        rust_type == rust_type_from_openapi(prop.schema, is_required)
        needs_rename == field_name # prop.name /\ ~HasCamel(schema)
    IN  [ prop |-> prop.name,
          doc |-> IF "description" \in DOMAIN prop.schema
                  THEN prop.schema.description ELSE <<>>,
          skip_serializing_if |->
              ~is_required \/ StartsWith(rust_type, <<"Option<">>),
          rename |-> IF needs_rename THEN prop.name ELSE <<>>,
          flatten |-> FALSE,
          name |-> field_name,
          type |-> rust_type ]

\* pub links: Option<Vec<HashMap<String, Value>>>
LinksField ==
    [ prop |-> LinksName, doc |-> <<"HATEOAS links">>, skip_serializing_if |-> TRUE,
      rename |-> <<>>, flatten |-> FALSE, name |-> LinksName,
      type |-> <<"Option<", "Vec<", "HashMap<String, Value>", ">", ">">> ]

\* The catch-all field without its flatten attribute
ExtraFieldNotFlattened ==
    [ prop |-> <<>>, doc |-> <<"Additional fields from the API">>,
      skip_serializing_if |-> FALSE, rename |-> <<>>, flatten |-> FALSE,
      name |-> <<"e", "x", "t", "r", "a">>, type |-> <<"Value">> ]

\* #[serde(flatten)] pub extra: Value
ExtraField ==
    [ prop |-> <<>>, doc |-> <<"Additional fields from the API">>,
      skip_serializing_if |-> FALSE, rename |-> <<>>, flatten |-> TRUE,
      name |-> <<"e", "x", "t", "r", "a">>, type |-> <<"Value">> ]

\* The fields of the loop over properties.items(), 'links' skipped
RECURSIVE LoopFields(_, _, _)
LoopFields(props, i, schema) ==
    IF i > Len(props) THEN <<>>
    ELSE IF props[i].name = LinksName THEN LoopFields(props, i + 1, schema)
    ELSE <<StructField(props[i], schema)>> \o LoopFields(props, i + 1, schema)

generate_struct(name, schema) ==
    [ name |-> StructName(name),
      doc |-> IF "description" \in DOMAIN schema
              THEN schema.description ELSE StructName(name),
      rename_all |-> HasCamel(schema),
      fields |-> LoopFields(Properties(schema), 1, schema)
                   \o (IF LinksName \in PropertyNames(schema)
                       THEN <<LinksField>> ELSE <<>>)
                   \o <<ExtraField>> ]

(***************************************************************************)
(* collect_nested_schemas                                                  *)
(***************************************************************************)
\* d.get(k, default)
Get(d, k, default) == IF k \in DOMAIN d THEN d[k] ELSE default

\* The names one property sends collect_nested_schemas to, in order
PropNested(prop) ==
    IF "ref" \in DOMAIN prop THEN <<prop.ref>>
    ELSE IF "type" \in DOMAIN prop /\ prop.type = "array" /\ "items" \in DOMAIN prop
            /\ "ref" \in DOMAIN prop.items
         THEN <<prop.items.ref>>
    ELSE <<>>

\* The names the items of an allOf / oneOf / anyOf list send it to
RECURSIVE ItemsNested(_)
ItemsNested(items) ==
    IF items = <<>> THEN <<>>
    ELSE (IF "ref" \in DOMAIN Head(items) THEN <<Head(items).ref>> ELSE <<>>)
           \o ItemsNested(Tail(items))

RECURSIVE PropsNested(_)
PropsNested(props) ==
    IF props = <<>> THEN <<>>
    ELSE PropNested(Head(props).schema) \o PropsNested(Tail(props))

\* The recursive calls of the loop over properties alone
NestedNamesOfProperties(schema) == PropsNested(Properties(schema))

\* Every recursive call collect_nested_schemas makes for one schema, in order
NestedNames(schema) ==
    PropsNested(Properties(schema))
      \o ItemsNested(Get(schema, "allOf", <<>>))
      \o ItemsNested(Get(schema, "oneOf", <<>>))
      \o ItemsNested(Get(schema, "anyOf", <<>>))

\* collect_nested_schemas(schema_name, schemas, collected); the value is
\* `collected` as the call leaves it.  CollectEach is its loops' calls in turn.
RECURSIVE collect_nested_schemas(_, _, _), CollectEach(_, _, _)
collect_nested_schemas(schema_name, defs, collected) ==
    IF schema_name \in collected \/ schema_name \notin DOMAIN defs
    THEN collected
    ELSE CollectEach(NestedNames(defs[schema_name]), defs, collected \cup {schema_name})

CollectEach(names, defs, collected) ==
    IF names = <<>> THEN collected
    ELSE ByValue(LAMBDA after_head : CollectEach(Tail(names), defs, after_head),
                 collect_nested_schemas(Head(names), defs, collected))

(***************************************************************************)
(* generate_handler_method: the signature (parameters, request, return)    *)
(*                                                                         *)
(* A requestBody or a response is a dict with an optional 'content' dict    *)
(* whose key json stands for 'application/json'.                           *)
(***************************************************************************)
HasJson(x) == "json" \in DOMAIN Get(x, "content", <<>>)
JsonSchema(x) == Get(x.content.json, "schema", EmptySchema)

\* [p for p in parameters if p.get('in') == where]
ParamsIn(op, where) ==
    SelectSeq(Get(op, "parameters", <<>>),
              LAMBDA p : "in" \in DOMAIN p /\ p["in"] = where)

PathParam(param) ==
    [ name |-> to_snake_case(param.name),
      type |-> rust_type_from_openapi(Get(param, "schema", EmptySchema), TRUE) ]

QueryParam(param) ==
    [ name |-> to_snake_case(param.name),
      type |-> rust_type_from_openapi(Get(param, "schema", EmptySchema),
                                      Get(param, "required", FALSE)) ]

\* The type written after `request: &`, or <<>> when no request parameter is declared
RequestType(op) ==
    LET request_body == Get(op, "requestBody", <<>>)
    IN  IF DOMAIN request_body # {} /\ HasJson(request_body)
        THEN (IF "ref" \in DOMAIN JsonSchema(request_body)
              THEN JsonSchema(request_body).ref ELSE <<"Value">>)
        ELSE <<>>

\* The statuses tried in the opposite order: 202, then 201, then 200
SuccessResponseReversed(responses) ==
    IF "202" \in DOMAIN responses /\ DOMAIN responses["202"] # {} THEN responses["202"]
    ELSE IF "201" \in DOMAIN responses /\ DOMAIN responses["201"] # {}
         THEN responses["201"]
    ELSE IF "200" \in DOMAIN responses THEN responses["200"]
    ELSE <<>>

\* responses.get('200') or responses.get('201') or responses.get('202')
SuccessResponse(responses) ==
    IF "200" \in DOMAIN responses /\ DOMAIN responses["200"] # {} THEN responses["200"]
    ELSE IF "201" \in DOMAIN responses /\ DOMAIN responses["201"] # {}
         THEN responses["201"]
    ELSE IF "202" \in DOMAIN responses THEN responses["202"]
    ELSE <<>>

ReturnType(op) ==
    LET success_response == SuccessResponse(Get(op, "responses", <<>>))
    IN  IF DOMAIN success_response # {} /\ HasJson(success_response)
        THEN (IF "ref" \in DOMAIN JsonSchema(success_response)
              THEN JsonSchema(success_response).ref
              ELSE rust_type_from_openapi(JsonSchema(success_response), TRUE))
        ELSE <<"(", ")">>

\* summary, and description when it says something else, as the /// lines
DocLines(op) ==
    LET summary == Get(op, "summary", <<>>)
        description == Get(op, "description", <<>>)
    IN  (IF summary # <<>> THEN <<summary>> ELSE <<>>)
          \o (IF description # <<>> /\ description # summary
              THEN <<description>> ELSE <<>>)

\* clean_method_name(operation_id, method) if operation_id
\* else f"{method}_{path.replace('/', '_')}"
MethodName(path, method, op) ==
    LET operation_id == Get(op, "operationId", <<>>)
    IN  IF operation_id # <<>> THEN clean_method_name(operation_id, method)
        ELSE MethodChars(method) \o <<"_">> \o Replace(path, <<"/">>, <<"_">>)

\* One query parameter's push, with the normalized name as the wire name
QueryPushNormalized(param) ==
    [ wire |-> to_snake_case(param.name),
      name |-> to_snake_case(param.name),
      conditional |-> ~Get(param, "required", FALSE) ]

\* One query parameter's push: query.push(format!("{original_name}={}", ...)),
\* inside `if let Some(v) = {param_name}` unless the parameter is required
QueryPush(param) ==
    [ wire |-> param.name,
      name |-> to_snake_case(param.name),
      conditional |-> ~Get(param, "required", FALSE) ]

\* path_formatted: the path after the replace of each path parameter in turn
RECURSIVE PathFormatted(_, _, _)
PathFormatted(path, path_params, k) ==
    IF k > Len(path_params) THEN path
    ELSE PathFormatted(Replace(path, <<"{">> \o path_params[k].name \o <<"}">>,
                               <<"{", "}">>),
                       path_params, k + 1)

\* format_args, as the list of the names joined by ', '
FormatArgs(path_params) ==
    [k \in 1..Len(path_params) |-> to_snake_case(path_params[k].name)]

\* The format argument query_string
QueryStringArg == <<"query_string">>

\* url: a format! of a text and its arguments, or the path as a literal
Url(path, path_params, query_params) ==
    IF path_params # <<>>
    THEN [ format |-> TRUE,
           text |-> PathFormatted(path, path_params, 1)
                      \o (IF query_params # <<>> THEN <<"{", "}">> ELSE <<>>),
           args |-> FormatArgs(path_params)
                      \o (IF query_params # <<>> THEN <<QueryStringArg>> ELSE <<>>) ]
    ELSE IF query_params # <<>>
         THEN [ format |-> TRUE, text |-> path \o <<"{", "}">>,
                args |-> <<QueryStringArg>> ]
    ELSE [ format |-> FALSE, text |-> path, args |-> <<>> ]

\* One statement of the method body
Call(fn, arg) == [stmt |-> "call", fn |-> fn, arg |-> arg]
TodoComment == [stmt |-> "// TODO: DELETE with body not yet supported by client",
                fn |-> "", arg |-> ""]
LetUnused == [stmt |-> "let _ = request", fn |-> "", arg |-> ""]
Decode == [stmt |-> "serde_json::from_value(response)", fn |-> "", arg |-> ""]

\* The delete branch with nothing emitted for a request body
NoDeleteBodyMarker(request_body) == <<>>

\* The lines the delete branch emits for `if request_body:`
DeleteBodyMarker(request_body) ==
    IF DOMAIN request_body # {} THEN <<TodoComment, LetUnused>> ELSE <<>>

\* The verb branches made to pass `request` whether or not a body is declared
ClientCallsAlwaysRequest(method, request_body, return_type) ==
    CASE method = "get" -> <<Call("get", "")>>
      [] method \in {"post", "put", "patch"} -> <<Call(method, "request")>>
      [] method = "delete" ->
            DeleteBodyMarker(request_body)
              \o (IF return_type = <<"(", ")">>
                  THEN <<Call("delete", "")>>
                  ELSE <<Call("delete_raw", ""), Decode>>)
      [] OTHER -> <<>>

\* Call appropriate client method: the statements after the url is built
ClientCalls(method, request_body, return_type) ==
    CASE method = "get" -> <<Call("get", "")>>
      [] method \in {"post", "put", "patch"} ->
            <<Call(method, IF DOMAIN request_body # {}
                           THEN "request" ELSE "&serde_json::json!({})")>>
      [] method = "delete" ->
            DeleteBodyMarker(request_body)
              \o (IF return_type = <<"(", ")">>
                  THEN <<Call("delete", "")>>
                  ELSE <<Call("delete_raw", ""), Decode>>)
      [] OTHER -> <<>>

generate_handler_method(entry) ==
    LET op == entry.operation
        path_params == ParamsIn(op, "path")
        query_params == ParamsIn(op, "query")
    IN  [ name |-> MethodName(entry.path, entry.method, op),
          doc |-> DocLines(op),
          path |-> entry.path,
          method |-> entry.method,
          params |-> [i \in 1..Len(path_params) |-> PathParam(path_params[i])]
                       \o [i \in 1..Len(query_params) |-> QueryParam(query_params[i])],
          request |-> RequestType(op),
          return_type |-> ReturnType(op),
          query |-> [i \in 1..Len(query_params) |-> QueryPush(query_params[i])],
          url |-> Url(entry.path, path_params, query_params),
          body |-> ClientCalls(entry.method, Get(op, "requestBody", <<>>),
                               ReturnType(op)) ]

(***************************************************************************)
(* extract_handler_name                                                    *)
(***************************************************************************)
\* tag_map: the tags with a fixed handler name, as (tag, name) pairs
tag_map ==
    << \* 'Account': 'account'
       << <<"A", "c", "c", "o", "u", "n", "t">>,
          <<"a", "c", "c", "o", "u", "n", "t">> >>,
       \* 'Users': 'users'
       << <<"U", "s", "e", "r", "s">>,
          <<"u", "s", "e", "r", "s">> >>,
       \* 'Subscriptions - Pro': 'subscriptions'
       << <<"S", "u", "b", "s", "c", "r", "i", "p", "t", "i", "o", "n",
            "s", " ", "-", " ", "P", "r", "o">>,
          <<"s", "u", "b", "s", "c", "r", "i", "p", "t", "i", "o", "n", "s">> >>,
       \* 'Databases - Pro': 'databases'
       << <<"D", "a", "t", "a", "b", "a", "s", "e", "s", " ", "-", " ",
            "P", "r", "o">>,
          <<"d", "a", "t", "a", "b", "a", "s", "e", "s">> >>,
       \* 'Subscriptions - Pro - Connectivity': 'connectivity'
       << <<"S", "u", "b", "s", "c", "r", "i", "p", "t", "i", "o", "n",
            "s", " ", "-", " ", "P", "r", "o", " ", "-", " ", "C", "o",
            "n", "n", "e", "c", "t", "i", "v", "i", "t", "y">>,
          <<"c", "o", "n", "n", "e", "c", "t", "i", "v", "i", "t", "y">> >>,
       \* 'Subscriptions - Essentials': 'fixed_subscriptions'
       << <<"S", "u", "b", "s", "c", "r", "i", "p", "t", "i", "o", "n",
            "s", " ", "-", " ", "E", "s", "s", "e", "n", "t", "i", "a",
            "l", "s">>,
          <<"f", "i", "x", "e", "d", "_", "s", "u", "b", "s", "c", "r",
            "i", "p", "t", "i", "o", "n", "s">> >>,
       \* 'Databases - Essentials': 'fixed_databases'
       << <<"D", "a", "t", "a", "b", "a", "s", "e", "s", " ", "-", " ",
            "E", "s", "s", "e", "n", "t", "i", "a", "l", "s">>,
          <<"f", "i", "x", "e", "d", "_", "d", "a", "t", "a", "b", "a",
            "s", "e", "s">> >>,
       \* 'Role-based Access Control (RBAC)': 'acl'
       << <<"R", "o", "l", "e", "-", "b", "a", "s", "e", "d", " ", "A",
            "c", "c", "e", "s", "s", " ", "C", "o", "n", "t", "r", "o",
            "l", " ", "(", "R", "B", "A", "C", ")">>,
          <<"a", "c", "l">> >>,
       \* 'Cloud Accounts': 'cloud_accounts'
       << <<"C", "l", "o", "u", "d", " ", "A", "c", "c", "o", "u", "n",
            "t", "s">>,
          <<"c", "l", "o", "u", "d", "_", "a", "c", "c", "o", "u", "n",
            "t", "s">> >>,
       \* 'Tasks': 'tasks'
       << <<"T", "a", "s", "k", "s">>,
          <<"t", "a", "s", "k", "s">> >> >>

\* tag_map.get(tag, default)
TagMapGet(tag, default) ==
    IF \E k \in 1..Len(tag_map) : tag_map[k][1] = tag
    THEN tag_map[CHOOSE k \in 1..Len(tag_map) : tag_map[k][1] = tag][2]
    ELSE default

extract_handler_name(tag) ==
    ByValue(LAMBDA t :
        TagMapGet(t,
            to_snake_case(
                ByValue(LAMBDA r3 : Replace(r3, <<")">>, <<>>),
                    ByValue(LAMBDA r2 : Replace(r2, <<"(">>, <<>>),
                        ByValue(LAMBDA r1 : Replace(r1, <<" ">>, <<"_">>),
                            Replace(t, <<" ", "-", " ">>, <<"_">>)))))),
        tag)

(***************************************************************************)
(* generate_module                                                         *)
(***************************************************************************)
HttpMethods == {"get", "post", "put", "delete", "patch"}

\* The tag generate_module is called with
TheTag == <<"T">>

\* The tag test reading only the first tag of the operation
HasTagFirstOnly(op, tag) ==
    Get(op, "tags", <<>>) # <<>> /\ Head(Get(op, "tags", <<>>)) = tag

\* tag in operation.get('tags', [])
HasTag(op, tag) ==
    \E i \in 1..Len(Get(op, "tags", <<>>)) : Get(op, "tags", <<>>)[i] = tag

\* The items of the nested loop over paths that pass both tests, in order
TagEntries(tag) ==
    SelectSeq(paths, LAMBDA e : e.method \in HttpMethods /\ HasTag(e.operation, tag))

\* The calls of the loop over operation.get('parameters', [])
RECURSIVE ParamSeeds(_)
ParamSeeds(params) ==
    IF params = <<>> THEN <<>>
    ELSE (IF "schema" \in DOMAIN Head(params) /\ "ref" \in DOMAIN Head(params).schema
          THEN <<Head(params).schema.ref>> ELSE <<>>)
           \o ParamSeeds(Tail(params))

\* The call for a request body or for one response
JsonSeed(x) ==
    IF DOMAIN x # {} /\ HasJson(x) /\ "ref" \in DOMAIN JsonSchema(x)
    THEN <<JsonSchema(x).ref>> ELSE <<>>

\* The calls of the loop over operation.get('responses', {}).values()
RECURSIVE ResponseSeeds(_, _)
ResponseSeeds(responses, statuses) ==
    IF statuses = {} THEN <<>>
    ELSE LET st == CHOOSE x \in statuses : TRUE
         IN  JsonSeed(responses[st]) \o ResponseSeeds(responses, statuses \ {st})

\* Every name one operation passes to collect_nested_schemas
OperationSeeds(op) ==
    ParamSeeds(Get(op, "parameters", <<>>))
      \o JsonSeed(Get(op, "requestBody", <<>>))
      \o ResponseSeeds(Get(op, "responses", <<>>), DOMAIN Get(op, "responses", <<>>))

RECURSIVE EntrySeeds(_)
EntrySeeds(entries) ==
    IF entries = <<>> THEN <<>>
    ELSE OperationSeeds(Head(entries).operation) \o EntrySeeds(Tail(entries))

\* used_schemas after the loop over paths
UsedSchemas(tag) ==
    ByValue(LAMBDA seeds : CollectEach(seeds, schemas, {}), EntrySeeds(TagEntries(tag)))

\* deps of schema_name in the ordering loop, against the current `remaining`
Deps(schema_name, rem) ==
    LET props == Properties(Get(schemas, schema_name, EmptySchema))
    IN  { props[i].schema.ref : i \in { j \in 1..Len(props) :
              /\ "ref" \in DOMAIN props[j].schema
              /\ props[j].schema.ref \in rem
              /\ props[j].schema.ref # schema_name } }

\* The structs of the loop over sorted_schemas, enums and unknown names skipped
RECURSIVE Models(_)
Models(names) ==
    IF names = <<>> THEN <<>>
    ELSE (IF Head(names) \in DOMAIN schemas /\ "enum" \notin DOMAIN schemas[Head(names)]
          THEN <<generate_struct(Head(names), schemas[Head(names)])>> ELSE <<>>)
           \o Models(Tail(names))

\* Order of Python strings, character by character (ASCII order)
CharOrder ==
    <<"/", "0", "1", "2", "3", "4", "5", "6", "7", "8", "9">> \o UpperLetters
      \o <<"_">> \o LowerLetters \o <<"{", "}">>
CharRank(c) == CHOOSE i \in 1..Len(CharOrder) : CharOrder[i] = c
RECURSIVE StrLess(_, _)
StrLess(a, b) ==
    IF b = <<>> THEN FALSE
    ELSE IF a = <<>> THEN TRUE
    ELSE IF Head(a) = Head(b) THEN StrLess(Tail(a), Tail(b))
    ELSE CharRank(Head(a)) < CharRank(Head(b))

\* (path, method) order of sorted(tag_paths.items()) and sorted(methods.items())
EntryLess(e, f) ==
    \/ StrLess(e.path, f.path)
    \/ e.path = f.path /\ StrLess(MethodChars(e.method), MethodChars(f.method))

\* The methods of the handler, in the order the two sorted loops visit them
RECURSIVE Methods(_)
Methods(entries) ==
    IF entries = {} THEN <<>>
    ELSE ByValue(LAMBDA e : <<generate_handler_method(e)>> \o Methods(entries \ {e}),
                 CHOOSE x \in entries : \A y \in entries \ {x} : EntryLess(x, y))

\* The text generate_module returns
ModuleText(tag, sorted) ==
    [ tag |-> tag,
      handler_class |-> to_pascal_case(extract_handler_name(tag))
                          \o <<"H", "a", "n", "d", "l", "e", "r">>,
      models |-> Models(sorted),
      methods |-> ByValue(LAMBDA entries :
                              ByValue(Methods, {entries[i] : i \in 1..Len(entries)}),
                          TagEntries(tag)) ]

\* Every order in which a set of strings s may hand out its elements: the
\* order follows the strings' hashes, which differ from process to process
Orders(s) ==
    { o \in [1..Cardinality(s) -> s] : \A i, j \in 1..Cardinality(s) : o[i] = o[j] => i = j }

NoModule == [tag |-> <<>>, handler_class |-> <<>>, models |-> <<>>, methods |-> <<>>]

\* generate_module up to `remaining = used_schemas.copy()`
Collect ==
    /\ pc = "start"
    /\ used_schemas' = UsedSchemas(TheTag)
    /\ remaining' = UsedSchemas(TheTag)
    /\ set_order' \in Orders(UsedSchemas(TheTag))
    /\ sorted_schemas' = <<>>
    /\ pc' = "while"
    /\ UNCHANGED <<schemas, paths, scan, module, run, first_module>>
    /\ UNCHANGED <<type_vars, struct_vars, name_vars, call_vars>>

\* `while remaining:` found true; list(remaining) is taken for the for loop,
\* in the order the set hands out the names still in it
BeginPass ==
    /\ pc = "while"
    /\ remaining # {}
    /\ scan' = SelectSeq(set_order, LAMBDA n : n \in remaining)
    /\ pc' = "for"
    /\ UNCHANGED <<schemas, paths, used_schemas, remaining, set_order,
                   sorted_schemas, module, run, first_module>>
    /\ UNCHANGED <<type_vars, struct_vars, name_vars, call_vars>>

\* One iteration of `for schema_name in list(remaining)`
ScanStep ==
    /\ pc = "for"
    /\ scan # <<>>
    /\ LET schema_name == Head(scan)
       IN  IF Deps(schema_name, remaining) = {}
           THEN /\ sorted_schemas' = Append(sorted_schemas, schema_name)
                /\ remaining' = remaining \ {schema_name}
           ELSE UNCHANGED <<sorted_schemas, remaining>>
    /\ scan' = Tail(scan)
    /\ pc' = IF Tail(scan) = <<>> THEN "while" ELSE "for"
    /\ UNCHANGED <<schemas, paths, used_schemas, set_order, module, run, first_module>>
    /\ UNCHANGED <<type_vars, struct_vars, name_vars, call_vars>>

\* `while remaining:` found false (or no schema is used): the rest of generate_module
Emit ==
    /\ pc = "while"
    /\ remaining = {}
    /\ module' = ModuleText(TheTag, sorted_schemas)
    /\ pc' = "done"
    /\ UNCHANGED <<schemas, paths, used_schemas, remaining, set_order, scan,
                   sorted_schemas, run, first_module>>
    /\ UNCHANGED <<type_vars, struct_vars, name_vars, call_vars>>

\* The program is run a second time on the same document
RunAgain ==
    /\ pc = "done"
    /\ run = 1
    /\ run' = 2
    /\ first_module' = module
    /\ module' = NoModule
    /\ used_schemas' = {}
    /\ remaining' = {}
    /\ set_order' = <<>>
    /\ scan' = <<>>
    /\ sorted_schemas' = <<>>
    /\ pc' = "start"
    /\ UNCHANGED <<schemas, paths>>
    /\ UNCHANGED <<type_vars, struct_vars, name_vars, call_vars>>

(***************************************************************************)
(* The documents a run is checked on                                       *)
(***************************************************************************)
MaxDocProps == 1

\* The schemas of the document, and a name the document does not define
SchemaNames == { <<"a", "B">>, <<"C">> }
MissingName == <<"x">>

Ref(n) == [ref |-> n]
ArrayOf(item) == [type |-> "array", items |-> item]
StringSchema == [type |-> "string"]
EnumSchema == [type |-> "string", enum |-> << <<"o", "n">>, <<"o", "f", "f">> >>]

DocPropSchemas ==
    {Ref(n) : n \in SchemaNames \cup {MissingName}}
      \cup {ArrayOf(Ref(n)) : n \in SchemaNames}

\* The k-th property name of a document schema: p1, p2, ...
DocPropName(k) == <<"p", CharOrder[k + 2]>>

DocProperties ==
    UNION { { [k \in 1..n |-> [name |-> DocPropName(k), schema |-> f[k]]] :
                f \in [1..n -> DocPropSchemas] } : n \in 0..MaxDocProps }

DocSchemas ==
    {EnumSchema} \cup {[type |-> "object", properties |-> ps] : ps \in DocProperties}

JsonContent(schema) == [content |-> [json |-> [schema |-> schema]]]

DocParameters ==
    { <<>>,
      << [name |-> <<"i", "d">>, in |-> "path", required |-> TRUE,
          schema |-> Ref(<<"C">>)] >> }

DocResponses ==
    { <<>> } \cup
    { [st \in {"200"} |-> JsonContent(sc)] :
        sc \in { Ref(<<"a", "B">>), Ref(<<"C">>), Ref(MissingName),
                 ArrayOf(Ref(<<"C">>)) } }

DocOperations ==
    { [tags |-> <<TheTag>>, parameters |-> ps, responses |-> rs] :
        ps \in DocParameters, rs \in DocResponses }
    \cup
    { [tags |-> <<TheTag>>, parameters |-> ps, responses |-> rs,
       requestBody |-> JsonContent(Ref(<<"a", "B">>))] :
        ps \in DocParameters, rs \in DocResponses }

\* The operation under a method and a tag list generate_module passes over
UntaggedOperation == [tags |-> <<>>, responses |-> [st \in {"200"} |-> JsonContent(Ref(<<"C">>))]]

DocEntries ==
    { [path |-> <<"/", "w">>, method |-> "post", operation |-> op] :
        op \in DocOperations }
    \cup { [path |-> <<"/", "w">>, method |-> "options",
            operation |-> [UntaggedOperation EXCEPT !.tags = <<TheTag>>]],
           [path |-> <<"/", "w">>, method |-> "post", operation |-> UntaggedOperation] }

Idle == <<>>

ModuleInit ==
    /\ schemas \in [SchemaNames -> DocSchemas]
    /\ paths \in { <<e>> : e \in DocEntries }
    /\ used_schemas = {}
    /\ remaining = {}
    /\ set_order = <<>>
    /\ scan = <<>>
    /\ sorted_schemas = <<>>
    /\ module = NoModule
    /\ run = 1
    /\ first_module = NoModule

ModuleIdle ==
    /\ schemas = Idle /\ paths = Idle /\ used_schemas = {} /\ remaining = {}
    /\ set_order = <<>> /\ scan = <<>> /\ sorted_schemas = <<>> /\ module = NoModule /\ run = 1
    /\ first_module = NoModule
TypeIdle == t_schema = Idle /\ t_required = TRUE /\ t_result = <<>>
StructIdle == s_name = Idle /\ s_schema = Idle /\ s_result = Idle
NameIdle == n_name = Idle /\ n_snake = Idle /\ n_pascal = Idle
MethodIdle == h_entry = Idle /\ h_result = Idle
CleanIdle == c_operation_id = Idle /\ c_method = "get" /\ c_result = Idle
EnumIdle == e_values = Idle /\ e_result = Idle
MainIdle ==
    /\ tags = Idle /\ todo = Idle /\ files = Idle /\ written = Idle /\ first_files = Idle
    /\ argv = Idle /\ spec_file = Idle /\ output_dir = FALSE /\ exit_status = Idle
CoverageIdle ==
    /\ v_args = Idle /\ v_enterprise = Idle /\ v_routing_table = Idle
    /\ v_cloud = Idle /\ v_missing = Idle /\ v_extra = Idle /\ v_exit = Idle
CallIdle == MethodIdle /\ CleanIdle /\ EnumIdle /\ MainIdle /\ CoverageIdle

Init ==
    /\ pc = "start"
    /\ ModuleInit
    /\ TypeIdle /\ StructIdle /\ NameIdle /\ CallIdle

Next == Collect \/ BeginPass \/ ScanStep \/ Emit \/ RunAgain

\* Two runs of generate_module for one tag over one document
Spec == Init /\ [][Next]_vars

\* The runs over the documents whose one operation is tagged and returns
\* schema aB, under the interpreter's scheduling: it keeps executing the loop
\* it is in, so no step is postponed forever
LoopInit ==
    /\ Init
    /\ paths = << [ path |-> <<"/", "w">>, method |-> "post",
                    operation |-> [ tags |-> <<TheTag>>, parameters |-> <<>>,
                                    responses |-> [st \in {"200"} |->
                                        JsonContent(Ref(<<"a", "B">>))] ] ] >>

FairSpec == LoopInit /\ [][Next]_vars /\ WF_vars(Next)

(***************************************************************************)
(* rust_type_from_openapi called on one schema                             *)
(***************************************************************************)
MaxRefLen == 3
MaxItemsDepth == 1

\* Every string of at most n characters of the alphabet
Strings(alphabet, n) == UNION { [1..k -> alphabet] : k \in 0..n }

RefNames == Strings({"a", "B"}, MaxRefLen) \ {<<>>}

TypeValues == {"string", "integer", "number", "boolean", "object", "array", "null"}
FormatValues == {"", "uuid", "date-time", "date", "binary", "int32", "int64",
                 "float", "double", "password"}

LeafSchemas ==
    {EmptySchema, EnumSchema, [enum |-> << <<"o", "n">> >>]}
      \cup {Ref(n) : n \in RefNames}
      \cup {[type |-> t, format |-> f] : t \in TypeValues, f \in FormatValues}
      \cup {[type |-> t] : t \in TypeValues}
      \cup {[format |-> f] : f \in FormatValues}

\* The schemas that are given an 'items' key
ItemsHolders == {[type |-> "array"], [type |-> "array", format |-> "int32"], StringSchema}

RECURSIVE SchemasOfDepth(_)
SchemasOfDepth(d) ==
    IF d = 0 THEN LeafSchemas
    ELSE LET inner == SchemasOfDepth(d - 1)
         IN  inner \cup {[items |-> it] @@ h : h \in ItemsHolders, it \in inner}

TypeInit ==
    /\ pc = "type"
    /\ t_schema \in SchemasOfDepth(MaxItemsDepth)
    /\ t_required \in BOOLEAN
    /\ t_result = <<>>
    /\ ModuleIdle /\ StructIdle /\ NameIdle /\ CallIdle

\* rust_type_from_openapi(t_schema, t_required)
MapType ==
    /\ pc = "type"
    /\ t_result' = rust_type_from_openapi(t_schema, t_required)
    /\ pc' = "typed"
    /\ UNCHANGED <<t_schema, t_required, module_vars, struct_vars, name_vars, call_vars>>

TypeSpec == TypeInit /\ [][MapType]_vars

(***************************************************************************)
(* generate_struct called on one object schema                             *)
(***************************************************************************)
MaxProps == 2

StructPropNames ==
    { <<"i", "d">>, LinksName, <<"c", "A">>, <<"X", "s">>, <<"t", "y", "p", "e">>,
      <<"e", "x", "t", "r", "a">>, <<"a", "_", "b">> }

StructPropSchemas ==
    {EmptySchema, StringSchema, Ref(<<"a", "B">>), ArrayOf(StringSchema), EnumSchema}

\* The property lists: at most MaxProps properties, no name twice
StructProperties ==
    UNION { { [k \in 1..n |-> [name |-> nm[k], schema |-> sc[k]]] :
                nm \in { f \in [1..n -> StructPropNames] :
                           \A i, j \in 1..n : f[i] = f[j] => i = j },
                sc \in [1..n -> StructPropSchemas] } : n \in 0..MaxProps }

\* The object schemas with this property list: without and with a
\* 'required' list, which names any of the properties
StructSchemas(ps) ==
    { [type |-> "object", properties |-> ps] }
      \cup { [type |-> "object", properties |-> ps, required |-> rq] :
                rq \in SUBSET {ps[k].name : k \in 1..Len(ps)} }

StructInit ==
    /\ pc = "struct"
    /\ s_name \in SchemaNames
    /\ \E ps \in StructProperties :
           s_schema \in StructSchemas(ps) \cup {[type |-> "object"]}
    /\ s_result = Idle
    /\ ModuleIdle /\ TypeIdle /\ NameIdle /\ CallIdle

\* generate_struct(s_name, s_schema, schemas)
MakeStruct ==
    /\ pc = "struct"
    /\ s_result' = generate_struct(s_name, s_schema)
    /\ pc' = "structed"
    /\ UNCHANGED <<s_name, s_schema, module_vars, type_vars, name_vars, call_vars>>

StructSpec == StructInit /\ [][MakeStruct]_vars

(***************************************************************************)
(* to_snake_case and to_pascal_case called on one name                     *)
(***************************************************************************)
MaxNameLen == 7

\* Wire names of letters and digits
NameAlphabet == {"a", "B", "1"}

NameInit ==
    /\ pc = "name"
    /\ n_name \in Strings(NameAlphabet, MaxNameLen)
    /\ n_snake = Idle
    /\ n_pascal = Idle
    /\ ModuleIdle /\ TypeIdle /\ StructIdle /\ CallIdle

\* to_pascal_case(to_snake_case(n_name))
ConvertName ==
    /\ pc = "name"
    /\ n_snake' = to_snake_case(n_name)
    /\ n_pascal' = to_pascal_case(to_snake_case(n_name))
    /\ pc' = "named"
    /\ UNCHANGED <<n_name, module_vars, type_vars, struct_vars, call_vars>>

NameSpec == NameInit /\ [][ConvertName]_vars

(***************************************************************************)
(* clean_method_name called on one operationId and verb                    *)
(***************************************************************************)
MaxIdWords == 3

\* The words operationIds are made of
IdWords ==
    { GetWord, <<"G", "e", "t">>, <<"A", "l", "l">>, <<"C", "r", "e", "a", "t", "e">>,
      DeleteWord, <<"D", "e", "l", "e", "t", "e">>, <<"B", "y", "I", "d">>,
      PostWord, <<"P", "o", "s", "t">>, <<"W">>, <<"_">> }

\* The operationIds of at most n words
RECURSIVE OperationIds(_)
OperationIds(n) ==
    IF n = 0 THEN {<<>>}
    ELSE LET shorter == OperationIds(n - 1)
         IN  shorter \cup {w \o id : w \in IdWords, id \in shorter}

CleanInit ==
    /\ pc = "clean"
    /\ c_operation_id \in OperationIds(MaxIdWords)
    /\ c_method \in HttpMethods
    /\ c_result = Idle
    /\ ModuleIdle /\ TypeIdle /\ StructIdle /\ NameIdle
    /\ MethodIdle /\ EnumIdle /\ MainIdle /\ CoverageIdle

\* clean_method_name(c_operation_id, c_method)
CleanName ==
    /\ pc = "clean"
    /\ c_result' = clean_method_name(c_operation_id, c_method)
    /\ pc' = "cleaned"
    /\ UNCHANGED <<c_operation_id, c_method, module_vars, type_vars, struct_vars,
                   name_vars, method_vars, enum_vars, main_vars, coverage_vars>>

CleanSpec == CleanInit /\ [][CleanName]_vars

(***************************************************************************)
(* generate_handler_method called on one operation                         *)
(***************************************************************************)
MaxParams == 3

\* A path with two placeholders and a path with none
TemplatePath == <<"/", "w", "/", "{", "a", "}", "/", "{", "b", "C", "}">>
PlainPath == <<"/", "w">>

\* The parameters an operation may declare: the two path parameters of
\* TemplatePath, a required query parameter and two optional ones
ParameterPool ==
    { [name |-> <<"a">>, in |-> "path", required |-> TRUE, schema |-> StringSchema],
      [name |-> <<"b", "C">>, in |-> "path", required |-> TRUE,
       schema |-> [type |-> "integer"]],
      [name |-> <<"q">>, in |-> "query", required |-> TRUE, schema |-> StringSchema],
      [name |-> <<"p", "Q">>, in |-> "query", schema |-> StringSchema],
      [name |-> <<"r">>, in |-> "query", required |-> FALSE] }

\* The parameter lists: at most n parameters of the pool, none twice, in any order
ParameterLists(n) ==
    UNION { { f \in [1..k -> ParameterPool] : \A i, j \in 1..k : f[i] = f[j] => i = j } :
            k \in 0..n }

\* A requestBody: the empty object, JSON with a $ref, JSON with an inline schema, another media type
RequestBodies ==
    { EmptySchema, JsonContent(Ref(<<"a", "B">>)), JsonContent(StringSchema),
      [content |-> [xml |-> [schema |-> StringSchema]]] }

\* A response: the empty object, a description alone, JSON with a $ref to
\* a capitalized and to a lower-case name, JSON with an inline schema, JSON
\* without a schema
ResponseObjects ==
    { EmptySchema, [description |-> <<"gone">>], JsonContent(Ref(<<"C">>)),
      JsonContent(Ref(<<"a", "B">>)), JsonContent(ArrayOf(StringSchema)),
      [content |-> [json |-> EmptySchema]] }

\* The responses dicts over the statuses 200, 201, 202 and 404
ResponsesDicts ==
    UNION { [sts -> ResponseObjects] : sts \in SUBSET {"200", "201", "202"} }
      \cup { [st \in {"404"} |-> JsonContent(Ref(<<"C">>))] }

WithBody(op, bodies) == {op} \cup {[requestBody |-> b] @@ op : b \in bodies}

\* The operations: every parameter list under no or one operationId, and
\* every responses dict under every request body
MethodOperations ==
    UNION { WithBody([parameters |-> ps], {JsonContent(Ref(<<"a", "B">>))})
              \cup { [parameters |-> ps, operationId |-> <<"g", "e", "t", "W">>,
                      summary |-> <<"Get a W">>, description |-> <<"Get a W">>] } :
            ps \in ParameterLists(MaxParams) }
      \cup UNION { WithBody([responses |-> rs], RequestBodies) : rs \in ResponsesDicts }
      \cup { [summary |-> <<"List">>, description |-> <<"Every W">>] }

MethodInit ==
    /\ pc = "method"
    /\ h_entry \in { [path |-> p, method |-> m, operation |-> op] :
                       p \in {TemplatePath, PlainPath}, m \in HttpMethods,
                       op \in MethodOperations }
    /\ h_result = Idle
    /\ ModuleIdle /\ TypeIdle /\ StructIdle /\ NameIdle
    /\ CleanIdle /\ EnumIdle /\ MainIdle /\ CoverageIdle

\* generate_handler_method(path, method, operation, schemas)
MakeMethod ==
    /\ pc = "method"
    /\ h_result' = generate_handler_method(h_entry)
    /\ pc' = "methoded"
    /\ UNCHANGED <<h_entry, module_vars, type_vars, struct_vars, name_vars,
                   clean_vars, enum_vars, main_vars, coverage_vars>>

MethodSpec == MethodInit /\ [][MakeMethod]_vars

(***************************************************************************)
(* generate_enum called on one value list                                  *)
(***************************************************************************)
MaxValues == 2

EnumValues ==
    { <<"M", "i", "x", "e", "d">>, <<"c", "a", "s", "e">>, <<"a", "-", "b">>,
      <<"c", "-", "d">>, <<"A", "B">>, <<"A">>, <<"a", ".", "b">>, <<"a", "1">>, <<"B", "a">> }

EnumInit ==
    /\ pc = "enum"
    /\ e_values \in UNION { [1..n -> EnumValues] : n \in 0..MaxValues }
    /\ e_result = Idle
    /\ ModuleIdle /\ TypeIdle /\ StructIdle /\ NameIdle
    /\ MethodIdle /\ CleanIdle /\ MainIdle /\ CoverageIdle

\* generate_enum(name, e_values)
MakeEnum ==
    /\ pc = "enum"
    /\ e_result' = generate_enum(<<"E">>, e_values)
    /\ pc' = "enumed"
    /\ UNCHANGED <<e_values, module_vars, type_vars, struct_vars, name_vars,
                   method_vars, clean_vars, main_vars, coverage_vars>>

EnumSpec == EnumInit /\ [][MakeEnum]_vars

(***************************************************************************)
(* main: one module file per tag of the document's tag list, over           *)
(* documents without component schemas (generate_module then has nothing    *)
(* to order and returns ModuleText(tag, <<>>))                             *)
(***************************************************************************)
MaxTags == 2

DatabasesProName ==
    <<"D", "a", "t", "a", "b", "a", "s", "e", "s", " ", "-", " ", "P", "r", "o">>
DatabasesName == <<"D", "a", "t", "a", "b", "a", "s", "e", "s">>
TasksName == <<"T", "a", "s", "k", "s">>
CloudAccountsName ==
    <<"c", "l", "o", "u", "d", "A", "c", "c", "o", "u", "n", "t", "s">>

\* The tag names a document lists, and one it does not
DocTagNames == {DatabasesProName, DatabasesName, TasksName, CloudAccountsName}
UnlistedName == <<"B", "e", "t", "a">>

\* The tag lists: at most n tag names, no name twice, in any order
TagLists(n) ==
    UNION { { f \in [1..k -> DocTagNames] : \A i, j \in 1..k : f[i] = f[j] => i = j } :
            k \in 0..n }

\* The 'tags' of an operation; an operation may also have no 'tags' key
OperationTagLists ==
    { <<>>, <<TasksName>>, <<DatabasesName>>, <<DatabasesProName, TasksName>>,
      <<UnlistedName, DatabasesProName>> }

MainOperations == {[tags |-> ts] : ts \in OperationTagLists} \cup {[summary |-> <<"W">>]}

\* The documents: GET /w and one more operation of /w
MainDocs ==
    { << [path |-> PlainPath, method |-> "get", operation |-> op1],
         [path |-> PlainPath, method |-> m, operation |-> op2] >> :
        op1 \in MainOperations, op2 \in MainOperations, m \in {"delete", "options"} }

\* The command lines: the script alone, with its two arguments, with three
CommandLines ==
    { <<"script">>, <<"script", "openapi.json", "out">>,
      <<"script", "openapi.json", "out", "more">> }

\* The file the first argument names: missing; there but not readable; not
\* JSON; JSON that is not an object; a document with its paths and tags
SpecFiles ==
    { [kind |-> k] : k \in {"missing", "unreadable", "malformed", "not_object"} }
      \cup { [kind |-> "document", paths |-> ps, tags |-> ts] :
               ps \in MainDocs, ts \in TagLists(MaxTags) }

MainInit ==
    /\ pc = "argv"
    /\ argv \in CommandLines
    /\ spec_file \in SpecFiles
    /\ output_dir = FALSE
    /\ exit_status = <<>>
    /\ schemas = Idle
    /\ paths = Idle
    /\ tags = Idle
    /\ todo = Idle
    /\ files = <<>>
    /\ written = <<>>
    /\ first_files = <<>>
    /\ used_schemas = {} /\ remaining = {} /\ set_order = <<>> /\ scan = <<>>
    /\ sorted_schemas = <<>> /\ module = NoModule /\ run = 1 /\ first_module = NoModule
    /\ TypeIdle /\ StructIdle /\ NameIdle /\ MethodIdle /\ CleanIdle /\ EnumIdle
    /\ CoverageIdle

\* sys.exit(1), or an exception nothing catches: the process ends with status 1
ExitWithError ==
    /\ exit_status' = <<1>>
    /\ pc' = "exited"
    /\ UNCHANGED <<tags, todo, files, written, first_files, argv, spec_file, output_dir,
                   module_vars>>

\* if len(sys.argv) != 3: print(__doc__); sys.exit(1)
CheckArgs ==
    /\ pc = "argv"
    /\ IF Len(argv) # 3 THEN ExitWithError
       ELSE /\ pc' = "exists"
            /\ UNCHANGED <<main_vars, module_vars>>
    /\ UNCHANGED <<type_vars, struct_vars, name_vars, method_vars, clean_vars, enum_vars,
                   coverage_vars>>

\* The existence check with the output directory made before the exit
CheckExistsAfterMkdir ==
    /\ pc = "exists"
    /\ IF spec_file.kind = "missing"
       THEN /\ exit_status' = <<1>>
            /\ output_dir' = TRUE
            /\ pc' = "exited"
            /\ UNCHANGED <<tags, todo, files, written, first_files, argv, spec_file,
                           module_vars>>
       ELSE /\ pc' = "load"
            /\ UNCHANGED <<main_vars, module_vars>>
    /\ UNCHANGED <<type_vars, struct_vars, name_vars, method_vars, clean_vars, enum_vars,
                   coverage_vars>>

\* if not spec_file.exists(): print(...); sys.exit(1)
CheckExists ==
    /\ pc = "exists"
    /\ IF spec_file.kind = "missing" THEN ExitWithError
       ELSE /\ pc' = "load"
            /\ UNCHANGED <<main_vars, module_vars>>
    /\ UNCHANGED <<type_vars, struct_vars, name_vars, method_vars, clean_vars, enum_vars,
                   coverage_vars>>

\* with open(spec_file) as f: spec = json.load(f), and the three spec.get
\* lines: open raises on an unreadable file, json.load on text that is not
\* JSON, spec.get on a value that is not a dict
LoadSpec ==
    /\ pc = "load"
    /\ IF spec_file.kind # "document" THEN ExitWithError
       ELSE /\ paths' = spec_file.paths
            /\ schemas' = EmptySchema
            /\ tags' = spec_file.tags
            /\ todo' = spec_file.tags
            /\ pc' = "mkdir"
            /\ UNCHANGED <<files, written, first_files, argv, spec_file, output_dir,
                           exit_status, used_schemas, remaining, set_order, scan,
                           sorted_schemas, module, run, first_module>>
    /\ UNCHANGED <<type_vars, struct_vars, name_vars, method_vars, clean_vars, enum_vars,
                   coverage_vars>>

\* output_dir.mkdir(parents=True, exist_ok=True)
MakeOutputDir ==
    /\ pc = "mkdir"
    /\ output_dir' = TRUE
    /\ pc' = "main"
    /\ UNCHANGED <<tags, todo, files, written, first_files, argv, spec_file, exit_status,
                   module_vars>>
    /\ UNCHANGED <<type_vars, struct_vars, name_vars, method_vars, clean_vars, enum_vars,
                   coverage_vars>>

\* One iteration of `for tag in tags`: the module is generated and written
\* to the file named after extract_handler_name(tag_name)
WriteModule ==
    /\ pc = "main"
    /\ todo # <<>>
    /\ LET tag_name == Head(todo)
           module_code == ModuleText(tag_name, <<>>)
           module_name == extract_handler_name(tag_name)
       IN  /\ files' = [n \in DOMAIN files \cup {module_name} |->
                           IF n = module_name THEN module_code ELSE files[n]]
           /\ written' = Append(written, [tag |-> tag_name, file |-> module_name,
                                          module |-> module_code])
    /\ todo' = Tail(todo)
    /\ UNCHANGED <<pc, tags, first_files, argv, spec_file, output_dir, exit_status,
                   module_vars, type_vars, struct_vars,
                   name_vars, method_vars, clean_vars, enum_vars, coverage_vars>>

\* The loop over the tags is over: "Generation complete!", and the process
\* ends with status 0
FinishMain ==
    /\ pc = "main"
    /\ todo = <<>>
    /\ exit_status' = <<0>>
    /\ pc' = "main_done"
    /\ UNCHANGED <<tags, todo, files, written, first_files, argv, spec_file, output_dir,
                   module_vars, type_vars, struct_vars, name_vars,
                   method_vars, clean_vars, enum_vars, coverage_vars>>

\* The program is run again on the same document with its tags listed in
\* another order, into an output directory that does not exist yet
RunReordered ==
    /\ pc = "main_done"
    /\ run = 1
    /\ run' = 2
    /\ first_files' = files
    /\ files' = <<>>
    /\ written' = <<>>
    /\ output_dir' = FALSE
    /\ exit_status' = <<>>
    /\ \E order \in Orders({tags[i] : i \in 1..Len(tags)}) :
           spec_file' = [spec_file EXCEPT !.tags = order]
    /\ tags' = Idle
    /\ todo' = Idle
    /\ paths' = Idle
    /\ schemas' = Idle
    /\ pc' = "argv"
    /\ UNCHANGED <<argv, used_schemas, remaining, set_order, scan,
                   sorted_schemas, module, first_module>>
    /\ UNCHANGED <<type_vars, struct_vars, name_vars, method_vars, clean_vars,
                   enum_vars, coverage_vars>>

MainNext ==
    \/ CheckArgs \/ CheckExists \/ LoadSpec \/ MakeOutputDir
    \/ WriteModule \/ FinishMain \/ RunReordered

MainSpec == MainInit /\ [][MainNext]_vars

(***************************************************************************)
(* The collection step of generate_module over schema graphs with          *)
(* property, array-item and composition references                         *)
(***************************************************************************)
MaxRefs == 2

\* The schemas of these documents: aB, C and D
CollectNames == SchemaNames \cup {<<"D">>}

\* What a property may be: a $ref to a defined or an undefined name, an
\* array of a $ref, items without the array type, a $ref beside array
\* items, a string
CollectPropSchemas ==
    {Ref(n) : n \in CollectNames \cup {MissingName}}
      \cup {ArrayOf(Ref(n)) : n \in CollectNames}
      \cup { [items |-> Ref(<<"D">>)],
             [ref |-> <<"C">>, type |-> "array", items |-> Ref(<<"D">>)],
             StringSchema }

\* The entries of an allOf / oneOf / anyOf list, and the lists of 1..n entries
CompositionItems == {Ref(<<"C">>), Ref(<<"D">>), StringSchema}
CompositionLists(n) == UNION { [1..k -> CompositionItems] : k \in 1..n }

\* An object with one property; a schema that is an allOf list, a one-entry
\* oneOf or anyOf list; an object with a property and an allOf list
CollectSchemas ==
    { [type |-> "object"], EnumSchema }
      \cup { [type |-> "object",
              properties |-> << [name |-> DocPropName(1), schema |-> ps] >>] :
                ps \in CollectPropSchemas }
      \cup { [allOf |-> refs] : refs \in CompositionLists(MaxRefs) }
      \cup { [oneOf |-> refs] : refs \in CompositionLists(1) }
      \cup { [anyOf |-> refs] : refs \in CompositionLists(1) }
      \cup { [type |-> "object",
              properties |-> << [name |-> DocPropName(1), schema |-> Ref(<<"C">>)] >>,
              allOf |-> << Ref(<<"D">>) >>] }

\* What D may be: a leaf, a reference back to aB, a reference to itself
LastSchemas ==
    { [type |-> "object"], [allOf |-> << Ref(<<"a", "B">>) >>],
      [type |-> "object",
       properties |-> << [name |-> DocPropName(1), schema |-> ArrayOf(Ref(<<"D">>))] >>] }

\* The tagged operations that seed the collection: by a response, by a
\* parameter and a request body, by a name the document does not define
CollectEntries ==
    { [path |-> <<"/", "w">>, method |-> "post", operation |-> op] :
        op \in { [tags |-> <<TheTag>>,
                  responses |-> [st \in {"200"} |-> JsonContent(Ref(<<"a", "B">>))]],
                 [tags |-> <<TheTag>>,
                  parameters |-> << [name |-> <<"i", "d">>, in |-> "path",
                                     required |-> TRUE, schema |-> Ref(<<"C">>)] >>,
                  requestBody |-> JsonContent(Ref(<<"D">>))],
                 [tags |-> <<TheTag>>,
                  responses |-> [st \in {"200", "404"} |->
                                    IF st = "200" THEN JsonContent(Ref(MissingName))
                                    ELSE JsonContent(Ref(<<"C">>))]] } }

CollectInit ==
    /\ pc = "start"
    /\ schemas \in { f \in [CollectNames -> CollectSchemas \cup LastSchemas] :
                       f[<<"D">>] \in LastSchemas }
    /\ paths \in { <<e>> : e \in CollectEntries }
    /\ used_schemas = {}
    /\ remaining = {}
    /\ set_order = <<>>
    /\ scan = <<>>
    /\ sorted_schemas = <<>>
    /\ module = NoModule
    /\ run = 1
    /\ first_module = NoModule
    /\ TypeIdle /\ StructIdle /\ NameIdle /\ CallIdle

\* generate_module up to the end of its collection loop
CollectSpec == CollectInit /\ [][Collect]_vars

(***************************************************************************)
(* scripts/check-api-coverage.py: the coverage checker.  An endpoint is a   *)
(* pair <<METHOD, path>>; the routing table is given by the pairs its       *)
(* <code class="xref"> elements hold and a handler file by the pairs its    *)
(* client calls hold, which is what the regular expressions of              *)
(* parse_routing_table_html and find_api_calls take from the two texts.     *)
(***************************************************************************)
\* The index of the first c in s at or after i, 0 when there is none
RECURSIVE IndexFrom(_, _, _)
IndexFrom(s, c, i) ==
    IF i > Len(s) THEN 0
    ELSE IF s[i] = c THEN i
    ELSE IndexFrom(s, c, i + 1)

\* re.sub of an opening character, one or more characters other than the
\* closing one, and the closing character, by {}: s from position i on
RECURSIVE SubGroup(_, _, _, _)
SubGroup(s, open, close, i) ==
    IF i > Len(s) THEN <<>>
    ELSE IF s[i] = open /\ IndexFrom(s, close, i + 1) > i + 1
         THEN <<"{", "}">> \o SubGroup(s, open, close, IndexFrom(s, close, i + 1) + 1)
    ELSE <<s[i]>> \o SubGroup(s, open, close, i + 1)

\* re.sub(r"//+", "/", path): s from position i on
RECURSIVE SubSlashes(_, _)
SubSlashes(s, i) ==
    IF i > Len(s) THEN <<>>
    ELSE IF s[i] = "/" /\ i > 1 /\ s[i - 1] = "/" THEN SubSlashes(s, i + 1)
    ELSE <<s[i]>> \o SubSlashes(s, i + 1)

\* path.split("?")[0]
DropQuery(s) ==
    IF IndexFrom(s, "?", 1) = 0 THEN s ELSE SubSeq(s, 1, IndexFrom(s, "?", 1) - 1)

normalize_path(path) ==
    ByValue(LAMBDA braces :
                ByValue(LAMBDA parens : DropQuery(SubSlashes(parens, 1)),
                        SubGroup(braces, "(", ")", 1)),
            SubGroup(path, "{", "}", 1))

\* parse_routing_table_html: the pairs of the table, their paths normalized
parse_routing_table_html(table) == { <<ep[1], normalize_path(ep[2])>> : ep \in table }

V1Root == <<"/", "v", "1", "/">>
V2Root == <<"/", "v", "2", "/">>

\* path.startswith("/v1/") or (include_v2 and path.startswith("/v2/"))
InScope(path, include_v2) ==
    StartsWith(path, V1Root) \/ (include_v2 /\ StartsWith(path, V2Root))

filter_scope(endpoints, include_v2) == { ep \in endpoints : InScope(ep[2], include_v2) }

\* code_eps: the calls of every handler, normalized and kept when in scope
CodeEndpoints(api_calls, include_v2) ==
    { ep \in { <<call[1], normalize_path(call[2])>> :
                 call \in UNION {api_calls[h] : h \in DOMAIN api_calls} } :
        InScope(ep[2], include_v2) }

(***************************************************************************)
(* One run of the coverage checker                                         *)
(***************************************************************************)
MaxEndpoints == 3

\* What the routing table may list: two documented forms of a placeholder,
\* a /v2 endpoint and an endpoint outside /v1 and /v2
DocumentedPool ==
    { <<"GET", <<"/", "v", "1", "/", "b">>>>,
      <<"GET", <<"/", "v", "1", "/", "b", "/", "(", "i", "n", "t", ":", "u", ")">>>>,
      <<"POST", <<"/", "v", "2", "/", "c">>>>,
      <<"DELETE", <<"/", "x", "/", "(", "u", ")">>>>,
      <<"PUT", <<"/", "v", "1", "/", "b", "/", "(", "u", ")">>>> }

\* What the handler file may call: a query string, a doubled slash, Rust
\* placeholders with and without a name, an endpoint outside /v1 and /v2
CalledPool ==
    { <<"GET", <<"/", "v", "1", "/", "b">>>>,
      <<"GET", <<"/", "v", "1", "/", "b", "/", "{", "}">>>>,
      <<"POST", <<"/", "v", "2", "/", "c", "?", "q", "=", "{", "v", "}">>>>,
      <<"DELETE", <<"/", "x", "/", "{", "}">>>>,
      <<"PATCH", <<"/", "v", "1", "/", "/", "e", "/", "{", "i", "d", "}">>>> }

\* The sets of at most n endpoints of a pool
EndpointSets(pool, n) == { eps \in SUBSET pool : Cardinality(eps) <= n }

CoverageInit ==
    /\ pc = "coverage"
    /\ v_args \in [fail_on_gaps : BOOLEAN, scope : {"v1", "v1v2"}]
    /\ v_enterprise \in
         { [exists |-> FALSE] }
           \cup { [exists |-> TRUE, api_calls |-> [h \in {<<"b", "d", "b">>} |-> eps]] :
                    eps \in EndpointSets(CalledPool, MaxEndpoints) }
    /\ v_routing_table \in EndpointSets(DocumentedPool, MaxEndpoints)
    /\ v_cloud \in
         { [exists |-> FALSE] }
           \cup { [exists |-> TRUE, typed |-> t, raw_only |-> 0] : t \in 0..1 }
    /\ v_missing = {}
    /\ v_extra = {}
    /\ v_exit = <<>>
    /\ ModuleIdle /\ TypeIdle /\ StructIdle /\ NameIdle
    /\ MethodIdle /\ CleanIdle /\ EnumIdle /\ MainIdle

\* main, the part under `if enterprise_handlers.exists():`
AnalyzeEnterprise ==
    /\ pc = "coverage"
    /\ LET doc_endpoints_all == parse_routing_table_html(v_routing_table)
           include_v2 == v_args.scope = "v1v2"
           doc_scoped == filter_scope(doc_endpoints_all, include_v2)
           code_eps == CodeEndpoints(v_enterprise.api_calls, include_v2)
           missing == doc_scoped \ code_eps
           extra == code_eps \ doc_scoped
       IN  IF ~v_enterprise.exists \/ doc_endpoints_all = {}
           THEN /\ pc' = "cloud"
                /\ UNCHANGED <<v_missing, v_extra, v_exit>>
           ELSE /\ v_missing' = missing
                /\ v_extra' = extra
                /\ IF v_args.fail_on_gaps /\ missing # {}
                   THEN v_exit' = <<1>> /\ pc' = "covered"
                   ELSE pc' = "cloud" /\ UNCHANGED v_exit
    /\ UNCHANGED <<v_args, v_enterprise, v_routing_table, v_cloud>>
    /\ UNCHANGED <<module_vars, type_vars, struct_vars, name_vars, method_vars,
                   clean_vars, enum_vars, main_vars>>

\* main, the part under `if cloud_handlers.exists():`, and the end of the
\* process: the percentage line divides by the number of methods, and the
\* exception of a division by zero ends the process with status 1
AnalyzeCloud ==
    /\ pc = "cloud"
    /\ v_exit' = IF v_cloud.exists /\ v_cloud.typed + v_cloud.raw_only = 0
                 THEN <<1>> ELSE <<0>>
    /\ pc' = "covered"
    /\ UNCHANGED <<v_args, v_enterprise, v_routing_table, v_cloud, v_missing, v_extra>>
    /\ UNCHANGED <<module_vars, type_vars, struct_vars, name_vars, method_vars,
                   clean_vars, enum_vars, main_vars>>

CoverageNext == AnalyzeEnterprise \/ AnalyzeCloud

CoverageSpec == CoverageInit /\ [][CoverageNext]_vars

(***************************************************************************)
(* Claims about generate_module                                            *)
(***************************************************************************)
\* No schema of the remaining set is ready: each waits for another one of the set
PureCycle ==
    /\ pc = "while"
    /\ remaining # {}
    /\ \A n \in remaining : Deps(n, remaining) # {}

\* C1: the emission-ordering loop of generate_module terminates for every set
\* of collected schema names and every schema mapping, pure cycles included:
\* every run reaches the return of generate_module.
C1_OrderingTerminates == <>(pc = "done")

\* C2: when the schemas still to be ordered form a pure dependency cycle, the
\* generation of the module ends in a fatal error state (one that reports the
\* offending names) instead of returning.
C2_CycleIsFatal == PureCycle ~> (pc = "error")

\* The position of schema n's struct in the models section (0: not emitted)
ModelIndex(n) ==
    IF \E i \in 1..Len(module.models) : module.models[i].name = StructName(n)
    THEN CHOOSE i \in 1..Len(module.models) : module.models[i].name = StructName(n)
    ELSE 0

\* A property of schema a references schema b, directly or through an array
RefersTo(a, b) ==
    \E i \in 1..Len(Properties(schemas[a])) :
        LET prop == Properties(schemas[a])[i].schema
        IN  \/ "ref" \in DOMAIN prop /\ prop.ref = b
            \/ /\ "ref" \notin DOMAIN prop
               /\ "items" \in DOMAIN prop
               /\ "ref" \in DOMAIN prop.items
               /\ prop.items.ref = b

\* C3: in every returned module, when a property of emitted schema A references
\* emitted schema B (A # B) directly or through an array, B's struct comes
\* before A's struct.
C3_DependencyOrder ==
    pc = "done" =>
        \A a, b \in DOMAIN schemas :
            (a # b /\ ModelIndex(a) > 0 /\ ModelIndex(b) > 0 /\ RefersTo(a, b))
                => ModelIndex(b) < ModelIndex(a)

\* The name a type expression is about: the expression without its wrappers
NamedType(type) == SelectSeq(type, LAMBDA tok : tok \notin {"Option<", "Vec<", ">"})

\* Every type expression the module writes: field types, parameter types,
\* request types and return types
ModuleTypes ==
    UNION { { module.models[i].fields[k].type :
                k \in 1..Len(module.models[i].fields) } :
            i \in 1..Len(module.models) }
      \cup UNION { { module.methods[i].params[k].type :
                       k \in 1..Len(module.methods[i].params) } :
                   i \in 1..Len(module.methods) }
      \cup { module.methods[i].request : i \in 1..Len(module.methods) }
      \cup { module.methods[i].return_type : i \in 1..Len(module.methods) }

\* C4: in every returned module, every schema of the document that a struct
\* field type or a method's parameter, request or return type names (directly
\* or inside Vec<...> / Option<...>) has its declaration in the models section.
C4_ReferencedTypesDeclared ==
    pc = "done" =>
        \A n \in DOMAIN schemas :
            (\E t \in ModuleTypes : NamedType(t) \in {n, StructName(n)})
                => ModelIndex(n) > 0

\* C5: two runs of generate_module on the same document and tag return the
\* same text, whatever order the set of collected names is iterated in.
C5_RunsAgree == (pc = "done" /\ run = 2) => module = first_module

(***************************************************************************)
(* Claims about generate_struct and rust_type_from_openapi                 *)
(***************************************************************************)
\* The type expression has the form Option<...>
IsOption(type) == type # <<>> /\ Head(type) = "Option<"

\* The field generate_struct emitted for the property of this name
FieldOf(struct, prop_name) ==
    struct.fields[CHOOSE k \in 1..Len(struct.fields) : struct.fields[k].prop = prop_name]

\* C6: for every property p of the object schema given to generate_struct, the
\* emitted field type is not Option<...> when p is in the required list and
\* is Option<...> when it is not; for every property schema ({} included) and
\* every property name (links included).
C6_RequiredFieldLaw ==
    pc = "structed" =>
        \A k \in 1..Len(Properties(s_schema)) :
            LET p == Properties(s_schema)[k].name
                required == p \in Get(s_schema, "required", {})
            IN  /\ \E j \in 1..Len(s_result.fields) : s_result.fields[j].prop = p
                /\ IsOption(FieldOf(s_result, p).type) <=> ~required

\* C7: rust_type_from_openapi(s, required=False) is Option<T> with
\* T = rust_type_from_openapi(s, required=True), and T is never Option<...>;
\* for every schema s, the empty schema included.
C7_OptionalWrapsRequired ==
    pc = "typed" =>
        /\ ~t_required =>
               t_result = <<"Option<">> \o rust_type_from_openapi(t_schema, TRUE) \o <<">">>
        /\ t_required => ~IsOption(t_result)

\* No $ref, no enum, and a (type, format) pair that is not in the fixed table
Unrecognized(schema) ==
    /\ "ref" \notin DOMAIN schema
    /\ "enum" \notin DOMAIN schema
    /\ <<TypeStr(schema), FormatStr(schema)>> \notin DOMAIN type_map

ArrayWithItems(schema) == TypeStr(schema) = "array" /\ "items" \in DOMAIN schema

\* The dynamic type, in the optional wrapper when the flag asks for it
DynamicType(required) == IF required THEN <<"Value">> ELSE <<"Option<", "Value", ">">>

C9_RefNameKeepsTail ==
    (pc = "typed" /\ "ref" \in DOMAIN t_schema /\ t_required) =>
        t_result = [i \in 1..Len(t_schema.ref) |->
                       IF i = 1 THEN UpperOf(t_schema.ref[i]) ELSE t_schema.ref[i]]

(***************************************************************************)
(* Claims about to_snake_case and to_pascal_case                           *)
(***************************************************************************)
\* A capital letter, not the first character, preceded by a lower-case letter or a digit
HasInternalCapital(name) ==
    \E i \in 2..Len(name) :
        IsUpper(name[i]) /\ (IsLower(name[i - 1]) \/ name[i - 1] \in DigitChars)

\* Equal, but for the case of the first letter
EqualUpToFirstCase(x, y) ==
    /\ Len(x) = Len(y)
    /\ \A i \in 2..Len(x) : x[i] = y[i]
    /\ Len(x) > 0 => LowerOf(x[1]) = LowerOf(y[1])

\* Letters and digits only
Alphanumeric(name) ==
    \A i \in 1..Len(name) : IsLower(name[i]) \/ IsUpper(name[i]) \/ name[i] \in DigitChars

\* Wherever two capitals are adjacent, they are a run of exactly two capitals
\* that a lower-case letter follows
CapitalsStartWords(name) ==
    \A i \in 1..(Len(name) - 1) :
        (IsUpper(name[i]) /\ IsUpper(name[i + 1])) =>
            /\ i + 2 <= Len(name) /\ IsLower(name[i + 2])
            /\ i > 1 => ~IsUpper(name[i - 1])

\* C10 as stated: for every wire name that has an internal capital preceded by
\* a lower-case letter or digit, to_pascal_case(to_snake_case(name)) equals the
\* name up to the case of the first letter (runs of capitals included).
C10_RoundTrip ==
    (pc = "named" /\ HasInternalCapital(n_name)) => EqualUpToFirstCase(n_pascal, n_name)

\* C10 as amended: for every wire name of letters and digits that has an
\* internal capital preceded by a lower-case letter or digit,
\* to_pascal_case(to_snake_case(name)) equals the name up to the case of the
\* first letter exactly when every run of capitals in it is a single capital
\* or two capitals followed by a lower-case letter.
C10_RoundTripWithoutAcronyms ==
    (pc = "named" /\ HasInternalCapital(n_name) /\ Alphanumeric(n_name)) =>
        (EqualUpToFirstCase(n_pascal, n_name) <=> CapitalsStartWords(n_name))

\* A name with two adjacent capitals before a lower-case letter has made the round trip
C10_Witness ==
    /\ pc = "named"
    /\ n_name = <<"a", "B", "B", "a">>
    /\ n_snake = <<"a", "_", "b", "_", "b", "a">>
    /\ n_pascal = <<"A", "B", "B", "a">>

(***************************************************************************)
(* Claims about clean_method_name                                          *)
(***************************************************************************)
\* C16: clean_method_name(operationId, verb) returns, for verb get, a name
\* that is exactly get or starts with list or get; for verb delete, a name
\* that is exactly delete or starts with delete; for verb post with an
\* operationId that contains create in any letter case, a name that starts
\* with create.
C16_VerbShapesName ==
    pc = "cleaned" =>
        /\ c_method = "get" =>
               \/ c_result = GetWord
               \/ StartsWith(c_result, ListWord)
               \/ StartsWith(c_result, GetWord)
        /\ c_method = "delete" =>
               c_result = DeleteWord \/ StartsWith(c_result, DeleteWord)
        /\ (c_method = "post" /\ Contains(Lower(c_operation_id), CreateWord)) =>
               StartsWith(c_result, CreateWord)

\* A delete operation whose operationId names no verb got the delete_ prefix
C16_Witness ==
    /\ pc = "cleaned"
    /\ c_method = "delete"
    /\ c_operation_id = <<"W", "B", "y", "I", "d">>
    /\ c_result = DeleteWord \o <<"_", "w", "_", "b", "y", "_", "i", "d">>

(***************************************************************************)
(* Claims about generate_handler_method                                    *)
(***************************************************************************)
\* The names between the braces of a path, in the order they stand in it
RECURSIVE Placeholders(_, _, _)
Placeholders(path, i, open) ==
    IF i > Len(path) THEN <<>>
    ELSE IF path[i] = "{" THEN Placeholders(path, i + 1, i)
    ELSE IF path[i] = "}" /\ open > 0
         THEN <<SubSeq(path, open + 1, i - 1)>> \o Placeholders(path, i + 1, 0)
    ELSE Placeholders(path, i + 1, open)

\* What format!(text, args) evaluates to when each argument a holds the
\* value <a>: the k-th {} of the text is filled with the k-th argument
RECURSIVE Formatted(_, _)
Formatted(text, args) ==
    IF text = <<>> THEN <<>>
    ELSE IF StartsWith(text, <<"{", "}">>) /\ args # <<>>
         THEN <<"<">> \o Head(args) \o <<">">> \o Formatted(DropFirst(text, 2), Tail(args))
    ELSE <<Head(text)>> \o Formatted(Tail(text), args)

\* The path with each {param} filled with the value of the parameter of that name
RECURSIVE Substituted(_, _)
Substituted(path, names) ==
    IF names = <<>> THEN path
    ELSE Substituted(Replace(path, <<"{">> \o Head(names) \o <<"}">>,
                             <<"<">> \o to_snake_case(Head(names)) \o <<">">>),
                     Tail(names))

\* The operation declares exactly the placeholders of its path as path parameters
DeclaresPlaceholders(entry) ==
    LET path_params == ParamsIn(entry.operation, "path")
    IN  {path_params[k].name : k \in 1..Len(path_params)}
          = {Placeholders(entry.path, 1, 0)[k] :
                k \in 1..Len(Placeholders(entry.path, 1, 0))}

\* C11: in the emitted method each {param} placeholder of the path is filled
\* with the value of the path parameter of the same name, for every order in
\* which the operation's parameter list declares the path parameters: the
\* emitted format! evaluates to the path with every placeholder replaced by
\* its own parameter (followed by the query string when there is one).
C11_PlaceholdersGetOwnParameter ==
    (pc = "methoded" /\ DeclaresPlaceholders(h_entry)) =>
        Formatted(h_result.url.text, h_result.url.args)
          = Substituted(h_entry.path, Placeholders(h_entry.path, 1, 0))
              \o (IF h_result.query # <<>>
                  THEN <<"<">> \o QueryStringArg \o <<">">> ELSE <<>>)

\* A response carries an application/json schema
CarriesJsonSchema(response) ==
    HasJson(response) /\ "schema" \in DOMAIN response.content.json

\* The statuses among 200, 201, 202 that the responses dict holds
PresentStatuses(responses) == {"200", "201", "202"} \cap DOMAIN responses

\* The first of them in the order 200, 201, 202
FirstPresent(responses) ==
    IF "200" \in DOMAIN responses THEN "200"
    ELSE IF "201" \in DOMAIN responses THEN "201" ELSE "202"

\* The type a JSON schema gives: the referenced name, or the mapped type
SchemaReturnType(schema) ==
    IF "ref" \in DOMAIN schema THEN schema.ref
    ELSE rust_type_from_openapi(schema, TRUE)

UnitType == <<"(", ")">>

\* C12 as stated: the return type comes from the first status among 200,
\* 201, 202 that is present in the responses, whatever the later ones hold:
\* its $ref JSON schema gives the referenced name, any other JSON schema
\* its mapped type; and it is () when none of the three statuses carries an
\* application/json schema.
C12_FirstPresentStatus ==
    pc = "methoded" =>
        LET responses == Get(h_entry.operation, "responses", <<>>)
            first == responses[FirstPresent(responses)]
        IN  /\ PresentStatuses(responses) # {} =>
                   h_result.return_type =
                       IF CarriesJsonSchema(first)
                       THEN SchemaReturnType(first.content.json.schema)
                       ELSE UnitType
            /\ (\A st \in PresentStatuses(responses) : ~CarriesJsonSchema(responses[st]))
                   => h_result.return_type = UnitType

\* The statuses among 200, 201, 202 whose response object is not empty
NonEmptyStatuses(responses) ==
    {st \in PresentStatuses(responses) : DOMAIN responses[st] # {}}

FirstNonEmpty(responses) ==
    IF "200" \in NonEmptyStatuses(responses) THEN "200"
    ELSE IF "201" \in NonEmptyStatuses(responses) THEN "201" ELSE "202"

\* C12 as amended: the return type comes from the first status among 200,
\* 201, 202 whose response object is present and not empty, whatever the
\* later ones hold: with application/json content, a $ref schema gives the
\* referenced name, any other schema its mapped type, and a missing schema
\* the dynamic type Value; it is () when that response has no
\* application/json content and when no such status exists.
C12_FirstNonEmptyStatus ==
    pc = "methoded" =>
        LET responses == Get(h_entry.operation, "responses", <<>>)
            first == responses[FirstNonEmpty(responses)]
        IN  h_result.return_type =
                IF NonEmptyStatuses(responses) = {} THEN UnitType
                ELSE IF ~HasJson(first) THEN UnitType
                ELSE IF CarriesJsonSchema(first)
                     THEN SchemaReturnType(first.content.json.schema)
                ELSE <<"Value">>

\* Status 200 holds an empty response object and 201 a $ref JSON schema,
\* and the return type is the name 201 references
C12_Witness ==
    /\ pc = "methoded"
    /\ Get(h_entry.operation, "responses", <<>>)
         = [st \in {"200", "201"} |->
              IF st = "200" THEN EmptySchema ELSE JsonContent(Ref(<<"C">>))]
    /\ h_result.return_type = <<"C">>

\* The client calls of the emitted body
ClientCallsOf(result) == SelectSeq(result.body, LAMBDA st : st.stmt = "call")

\* The operation declares a request body
DeclaresBody(entry) == DOMAIN Get(entry.operation, "requestBody", <<>>) # {}

\* C13: the emitted body contains exactly one client call, chosen by verb:
\* get gives client.get(url); post, put and patch give client.<verb>(url,
\* request) when a request body is declared and the call with an empty JSON
\* object otherwise; delete with return type () gives client.delete(url);
\* delete with another return type gives client.delete_raw(url) followed by
\* the typed serde_json::from_value decode of the raw response.
C13_OneCallByVerb ==
    pc = "methoded" =>
        LET calls == ClientCallsOf(h_result)
            method == h_entry.method
            body == h_result.body
        IN  /\ Len(calls) = 1
            /\ method = "get" => calls[1] = Call("get", "")
            /\ method \in {"post", "put", "patch"} =>
                   calls[1] = Call(method, IF DeclaresBody(h_entry) THEN "request"
                                           ELSE "&serde_json::json!({})")
            /\ (method = "delete" /\ h_result.return_type = UnitType) =>
                   /\ calls[1] = Call("delete", "")
                   /\ body[Len(body)] = calls[1]
            /\ (method = "delete" /\ h_result.return_type # UnitType) =>
                   /\ calls[1] = Call("delete_raw", "")
                   /\ Len(body) >= 2
                   /\ body[Len(body) - 1] = calls[1]
                   /\ body[Len(body)] = Decode

\* A delete that returns schema C was emitted as the raw call and the decode
C13_Witness ==
    /\ pc = "methoded"
    /\ h_entry.method = "delete"
    /\ ~DeclaresBody(h_entry)
    /\ h_result.return_type = <<"C">>
    /\ h_result.body = <<Call("delete_raw", ""), Decode>>

\* C14: for a delete operation that declares a request body the method is
\* generated, its body holds the TODO marker comment saying that DELETE with
\* a body is not supported, and its one client call is the delete call,
\* which carries no body.
C14_DeleteBodyIsMarked ==
    (pc = "methoded" /\ h_entry.method = "delete" /\ DeclaresBody(h_entry)) =>
        /\ h_result # Idle
        /\ \E i \in 1..Len(h_result.body) : h_result.body[i] = TodoComment
        /\ Len(ClientCallsOf(h_result)) = 1
        /\ ClientCallsOf(h_result)[1].fn \in {"delete", "delete_raw"}
        /\ ClientCallsOf(h_result)[1].arg = ""

\* A delete with a JSON request body and no response was emitted with the marker
C14_Witness ==
    /\ pc = "methoded"
    /\ h_entry.method = "delete"
    /\ Get(h_entry.operation, "requestBody", <<>>) = JsonContent(Ref(<<"a", "B">>))
    /\ h_result.request = <<"a", "B">>
    /\ h_result.body = <<TodoComment, LetUnused, Call("delete", "")>>

\* C15: for every query parameter of the operation the emitted method has
\* one push onto the query vector, unconditional if and only if the parameter
\* is required and inside an `if let Some(v)` branch if and only if it is not;
\* the name in the query string is the parameter's wire name, not its
\* normalized name.
C15_QueryPushes ==
    pc = "methoded" =>
        LET query_params == ParamsIn(h_entry.operation, "query")
        IN  /\ Len(h_result.query) = Len(query_params)
            /\ \A i \in 1..Len(query_params) :
                   /\ h_result.query[i].wire = query_params[i].name
                   /\ h_result.query[i].conditional
                        <=> ~("required" \in DOMAIN query_params[i]
                              /\ query_params[i].required)

\* An optional parameter pQ and a required parameter q were emitted
C15_Witness ==
    /\ pc = "methoded"
    /\ h_result.query =
         << [wire |-> <<"p", "Q">>, name |-> <<"p", "_", "q">>, conditional |-> TRUE],
            [wire |-> <<"q">>, name |-> <<"q">>, conditional |-> FALSE] >>

(***************************************************************************)
(* Claims about generate_enum                                              *)
(***************************************************************************)
HasHyphen(v) == \E i \in 1..Len(v) : v[i] = "-"

\* The blanket annotation by the stated priority: kebab-case if any value
\* has a hyphen, else UPPERCASE if all are upper-case, else lowercase if all
\* are lower-case, else none
BlanketByPriority(values) ==
    CASE \E k \in 1..Len(values) : HasHyphen(values[k]) -> "kebab-case"
      [] (\A k \in 1..Len(values) : ~HasHyphen(values[k]))
           /\ (\A k \in 1..Len(values) : IsUpperStr(values[k])) -> "UPPERCASE"
      [] (\A k \in 1..Len(values) : ~HasHyphen(values[k]))
           /\ (\E k \in 1..Len(values) : ~IsUpperStr(values[k]))
           /\ (\A k \in 1..Len(values) : IsLowerStr(values[k])) -> "lowercase"
      [] OTHER -> None

\* C17 as stated: generate_enum chooses the blanket annotation by the
\* priority kebab-case, UPPERCASE, lowercase; when none applies no blanket
\* annotation is emitted and every variant carries an explicit rename to its
\* literal value.
C17_EveryVariantRenamed ==
    pc = "enumed" =>
        /\ e_result.rename_all = BlanketByPriority(e_values)
        /\ e_result.rename_all = None =>
               \A k \in 1..Len(e_values) :
                   e_result.variants[k].rename = <<e_values[k]>>

\* C17 as amended: the blanket annotation is chosen by the same priority;
\* when none applies no blanket annotation is emitted and a variant carries
\* an explicit rename to its literal value exactly when the literal differs
\* from the variant's PascalCase name (for Mixed, case: only case).
C17_DifferingVariantRenamed ==
    pc = "enumed" =>
        /\ e_result.rename_all = BlanketByPriority(e_values)
        /\ e_result.rename_all = None =>
               \A k \in 1..Len(e_values) :
                   e_result.variants[k].rename =
                       IF e_result.variants[k].variant # e_values[k]
                       THEN <<e_values[k]>> ELSE <<>>

\* The values Mixed, case were emitted without a blanket annotation, Mixed
\* bare and case renamed
C17_Witness ==
    /\ pc = "enumed"
    /\ e_values = << <<"M", "i", "x", "e", "d">>, <<"c", "a", "s", "e">> >>
    /\ e_result.rename_all = None
    /\ e_result.variants =
         << [rename |-> <<>>, variant |-> <<"M", "i", "x", "e", "d">>],
            [rename |-> << <<"c", "a", "s", "e">> >>, variant |-> <<"C", "a", "s", "e">>] >>

(***************************************************************************)
(* Claims about the fields of generate_struct                              *)
(***************************************************************************)
\* The property each field but the last was emitted for, in field order
FieldProps(result) ==
    [k \in 1..(Len(result.fields) - 1) |-> result.fields[k].prop]

\* The last field is the extension field and no other field is flattened
EndsInExtension(result) ==
    LET fields == result.fields
    IN  /\ fields # <<>>
        /\ fields[Len(fields)].flatten
        /\ fields[Len(fields)].name = <<"e", "x", "t", "r", "a">>
        /\ fields[Len(fields)].type = <<"Value">>
        /\ \A k \in 1..(Len(fields) - 1) : ~fields[k].flatten

\* C18 as stated: generate_struct emits exactly one field per property of
\* the object schema, in the schema's property declaration order, followed
\* by exactly one extension field (extra, flattened) as the last field, for
\* every set of property names.
C18_FieldsInDeclarationOrder ==
    pc = "structed" =>
        /\ FieldProps(s_result)
             = [k \in 1..Len(Properties(s_schema)) |-> Properties(s_schema)[k].name]
        /\ EndsInExtension(s_result)

\* C18 as amended: generate_struct emits exactly one field per property: the
\* properties other than links in declaration order, then the field of the
\* property links when the schema has one, wherever it was declared; and
\* after them exactly one extension field (extra, flattened) as the last
\* field, for every set of property names.
C18_FieldsInOrderLinksLast ==
    pc = "structed" =>
        LET props == Properties(s_schema)
            others == SelectSeq(props, LAMBDA q : q.name # LinksName)
        IN  /\ FieldProps(s_result)
                 = [k \in 1..Len(others) |-> others[k].name]
                     \o (IF Len(others) < Len(props) THEN <<LinksName>> ELSE <<>>)
            /\ EndsInExtension(s_result)

\* A schema that declares links before id got the fields id, links, extra
C18_Witness ==
    /\ pc = "structed"
    /\ Len(Properties(s_schema)) = 2
    /\ Properties(s_schema)[1].name = LinksName
    /\ Properties(s_schema)[2].name = <<"i", "d">>
    /\ FieldProps(s_result) = << <<"i", "d">>, LinksName >>
    /\ EndsInExtension(s_result)

(***************************************************************************)
(* Claims about main                                                       *)
(***************************************************************************)
\* C19: a run over a document whose tag list holds n distinct tag names
\* writes n distinct output files: extract_handler_name maps distinct tag
\* names to distinct module file names, so no tag's module overwrites
\* another's, and the final files and their contents do not depend on the
\* order of the tags.
C19_OneFilePerTag ==
    pc = "main_done" =>
        /\ \A i, j \in 1..Len(tags) :
               i # j => extract_handler_name(tags[i]) # extract_handler_name(tags[j])
        /\ Cardinality(DOMAIN files) = Len(tags)
        /\ run = 2 => files = first_files

\* The operation lists the tag among its tags
ListsTag(op, tag) ==
    "tags" \in DOMAIN op /\ \E i \in 1..Len(op.tags) : op.tags[i] = tag

\* The (path, verb) of the document's operations under one of the five verbs
\* that list the tag
TaggedOperations(tag) ==
    { <<paths[k].path, paths[k].method>> :
        k \in { j \in 1..Len(paths) :
                  /\ paths[j].method \in {"get", "post", "put", "delete", "patch"}
                  /\ ListsTag(paths[j].operation, tag) } }

\* The (path, verb) of the methods of a module
MethodsOf(mod) == { <<mod.methods[a].path, mod.methods[a].method>> :
                      a \in 1..Len(mod.methods) }

\* C20: for every tag T of the tag list, the module generated for T holds
\* exactly one method for each (path, verb) whose operation lists T among
\* its tags and whose verb is get, post, put, delete or patch, and no other
\* method; so an operation with k listed tags is in exactly k modules and an
\* operation with no tags in none.
C20_MethodsFollowTags ==
    pc = "main_done" =>
        /\ Len(written) = Len(tags)
        /\ \A i \in 1..Len(tags) :
               /\ written[i].tag = tags[i]
               /\ MethodsOf(written[i].module) = TaggedOperations(tags[i])
               /\ Len(written[i].module.methods)
                    = Cardinality(TaggedOperations(tags[i]))
        /\ \A k \in 1..Len(paths) :
               Cardinality({ i \in 1..Len(written) :
                               <<paths[k].path, paths[k].method>>
                                   \in MethodsOf(written[i].module) })
                 = IF paths[k].method \in {"get", "post", "put", "delete", "patch"}
                   THEN Cardinality({ i \in 1..Len(tags) :
                                        ListsTag(paths[k].operation, tags[i]) })
                   ELSE 0

\* GET /w lists both tags of the tag list and is a method of both modules;
\* the untagged DELETE /w is in neither
C20_Witness ==
    /\ pc = "main_done"
    /\ tags = <<TasksName, DatabasesProName>>
    /\ paths[1].operation = [tags |-> <<DatabasesProName, TasksName>>]
    /\ paths[2].method = "delete"
    /\ paths[2].operation = [tags |-> <<>>]
    /\ Len(written) = 2
    /\ MethodsOf(written[1].module) = {<<PlainPath, "get">>}
    /\ MethodsOf(written[2].module) = {<<PlainPath, "get">>}


(***************************************************************************)
(* Further claims about clean_method_name                                  *)
(***************************************************************************)
\* The verb names the prefix loop goes through
VerbPrefixes == <<GetWord, PostWord, PutWord, DeleteWord, PatchWord>>

\* The name with one leading verb name removed, when it starts with one
StripOnePrefix(name) ==
    IF \E k \in 1..Len(VerbPrefixes) : StartsWith(Lower(name), VerbPrefixes[k])
    THEN LET k == CHOOSE j \in 1..Len(VerbPrefixes) :
                      StartsWith(Lower(name), VerbPrefixes[j])
         IN  DropFirst(name, Len(VerbPrefixes[k]))
    ELSE name

\* C24: clean_method_name removes at most one leading verb name from the
\* operationId: the returned name is the one built from the operationId
\* with a single leading verb name removed, so a verb name that follows the
\* removed one stays in the name.
C24_AtMostOnePrefixStripped ==
    pc = "cleaned" =>
        c_result = SpecialCases(ApplyReplacements(to_snake_case(
                                    StripOnePrefix(c_operation_id)), 1),
                                c_operation_id, c_method)

\* C28: for every non-empty operationId and every verb among get, post,
\* put, patch and delete, clean_method_name returns a non-empty name.
C28_NameIsNotEmpty ==
    (pc = "cleaned" /\ c_operation_id # <<>>) => c_result # <<>>


(***************************************************************************)
(* Further claims about generate_handler_method                            *)
(***************************************************************************)
\* The emitted body names the identifier request
MentionsRequest(result) ==
    \E i \in 1..Len(result.body) :
        result.body[i].arg = "request" \/ result.body[i] = LetUnused

\* C27: whenever the body emitted by generate_handler_method mentions the
\* identifier request (as the body argument of a post, put or patch call,
\* or in `let _ = request` for delete), the emitted signature declares a
\* request parameter, whatever the requestBody's content.
C27_RequestIsDeclared ==
    (pc = "methoded" /\ MentionsRequest(h_result)) => h_result.request # <<>>


\* The name a $ref of the operation points to: in its JSON request body,
\* in the JSON content of its success response
BodyRef(op) ==
    LET request_body == Get(op, "requestBody", <<>>)
    IN  IF HasJson(request_body) /\ "ref" \in DOMAIN JsonSchema(request_body)
        THEN JsonSchema(request_body).ref ELSE <<>>

ResponseRef(op) ==
    LET success_response == SuccessResponse(Get(op, "responses", <<>>))
    IN  IF HasJson(success_response) /\ "ref" \in DOMAIN JsonSchema(success_response)
        THEN JsonSchema(success_response).ref ELSE <<>>

\* The type name is the one the struct is declared under and the one a
\* $ref field gets
DeclaredAs(type, ref_name) ==
    /\ type = generate_struct(ref_name, EmptySchema).name
    /\ type = rust_type_from_openapi(Ref(ref_name), TRUE)

\* C26: for every schema name N, lower-case initial included, the type name
\* generate_handler_method writes for a $ref to N in the request parameter
\* or in the return type is the name generate_struct declares N under and
\* the name rust_type_from_openapi gives for a $ref to N.
C26_RefTypeNamesAgree ==
    pc = "methoded" =>
        /\ BodyRef(h_entry.operation) # <<>> =>
               DeclaredAs(h_result.request, BodyRef(h_entry.operation))
        /\ ResponseRef(h_entry.operation) # <<>> =>
               DeclaredAs(h_result.return_type, ResponseRef(h_entry.operation))


(***************************************************************************)
(* Claims about the names generate_struct's fields serialize under         *)
(***************************************************************************)
\* The field name without the raw-identifier prefix r#
Unraw(field_name) ==
    IF StartsWith(field_name, <<"r", "#">>) THEN DropFirst(field_name, 2) ELSE field_name

\* What rename_all = "camelCase" makes of a field name: the words between
\* the underscores, each with its first character upper-cased, joined, and
\* the first character of the result lower-cased
CamelCased(field_name) ==
    LET words == SplitUnderscore(field_name, 1, <<>>)
        joined == Join([k \in 1..Len(words) |->
                           [i \in 1..Len(words[k]) |->
                               IF i = 1 THEN UpperOf(words[k][i]) ELSE words[k][i]]])
    IN  [i \in 1..Len(joined) |-> IF i = 1 THEN LowerOf(joined[i]) ELSE joined[i]]

\* The key a field is serialized under: its rename annotation when it has
\* one, else its name, put in camel case when the struct has rename_all
SerializedName(field, rename_all) ==
    IF field.rename # <<>> THEN field.rename
    ELSE IF rename_all THEN CamelCased(Unraw(field.name))
    ELSE Unraw(field.name)

\* C25: every field generate_struct emits for a property of the object
\* schema serializes under the property's wire name: it carries a rename
\* annotation whenever its normalized name differs from the wire name and
\* the type-level camelCase annotation does not map the normalized name
\* back to the wire name.
C25_FieldKeepsWireName ==
    pc = "structed" =>
        \A k \in 1..Len(s_result.fields) :
            s_result.fields[k].prop # <<>> =>
                SerializedName(s_result.fields[k], s_result.rename_all)
                  = s_result.fields[k].prop


(***************************************************************************)
(* Claims about the collection step                                        *)
(***************************************************************************)
\* The names generate_module passes to collect_nested_schemas for the tag
SeedNames ==
    LET seeds == EntrySeeds(TagEntries(TheTag))
    IN  {seeds[i] : i \in 1..Len(seeds)}

\* The $ref targets of a composition list of the schema
CompositionEdges(schema) ==
    UNION { { Get(schema, key, <<>>)[i].ref :
                i \in { j \in 1..Len(Get(schema, key, <<>>)) :
                          "ref" \in DOMAIN Get(schema, key, <<>>)[j] } } :
            key \in {"allOf", "oneOf", "anyOf"} }

\* The $ref of a property, and the $ref of the items of an array property
PropertyRefEdges(schema) ==
    { Properties(schema)[i].schema.ref :
        i \in { j \in 1..Len(Properties(schema)) :
                  "ref" \in DOMAIN Properties(schema)[j].schema } }

IsArrayOfRef(prop) ==
    /\ "type" \in DOMAIN prop /\ prop.type = "array"
    /\ "items" \in DOMAIN prop /\ "ref" \in DOMAIN prop.items

ArrayItemEdges(schema) ==
    { Properties(schema)[i].schema.items.ref :
        i \in { j \in 1..Len(Properties(schema)) :
                  IsArrayOfRef(Properties(schema)[j].schema) } }

\* The array properties that are not themselves a $ref
PlainArrayItemEdges(schema) ==
    { Properties(schema)[i].schema.items.ref :
        i \in { j \in 1..Len(Properties(schema)) :
                  /\ IsArrayOfRef(Properties(schema)[j].schema)
                  /\ "ref" \notin DOMAIN Properties(schema)[j].schema } }

\* The defined names reachable from the set, edges[n] being the names the
\* schema named n refers to
RECURSIVE Reachable(_, _)
Reachable(names, edges) ==
    LET defined == names \cap DOMAIN schemas
        further == defined \cup (UNION {edges[n] : n \in defined} \cap DOMAIN schemas)
    IN  IF further = defined THEN defined ELSE Reachable(further, edges)

\* C23 as stated: after the collection loop the collected names are exactly
\* the names of the document's schemas reachable from the seed names over
\* property $ref edges, property array-item $ref edges and top-level
\* allOf / oneOf / anyOf $ref edges; no collected name is absent from the
\* document.
C23_CollectedIsClosure ==
    pc = "while" =>
        used_schemas =
            Reachable(SeedNames,
                      [n \in DOMAIN schemas |->
                          PropertyRefEdges(schemas[n]) \cup ArrayItemEdges(schemas[n])
                            \cup CompositionEdges(schemas[n])])

\* C23 as amended: the same, the array-item $ref edges being those of the
\* array properties that carry no $ref of their own.
C23_CollectedIsClosureOfPlainEdges ==
    pc = "while" =>
        /\ used_schemas =
               Reachable(SeedNames,
                         [n \in DOMAIN schemas |->
                             PropertyRefEdges(schemas[n])
                               \cup PlainArrayItemEdges(schemas[n])
                               \cup CompositionEdges(schemas[n])])
        /\ used_schemas \subseteq DOMAIN schemas

\* The collection returned on schemas that refer to each other and to
\* themselves: aB and C name each other, D names itself, and all three
\* were collected from the seed aB
C23_Witness ==
    /\ pc = "while"
    /\ SeedNames = {<<"a", "B">>}
    /\ schemas[<<"a", "B">>] = [allOf |-> << Ref(<<"C">>), Ref(<<"D">>) >>]
    /\ schemas[<<"C">>]
         = [type |-> "object",
            properties |-> << [name |-> DocPropName(1), schema |-> Ref(<<"a", "B">>)] >>]
    /\ schemas[<<"D">>]
         = [type |-> "object",
            properties |-> << [name |-> DocPropName(1),
                               schema |-> ArrayOf(Ref(<<"D">>))] >>]
    /\ used_schemas = {<<"a", "B">>, <<"C">>, <<"D">>}


(***************************************************************************)
(* Claims about the start of main                                          *)
(***************************************************************************)
\* The file named on the command line is missing or cannot be loaded
Unloadable == spec_file.kind # "document"

\* Nothing has been produced: no output directory, no module file
NoOutput == ~output_dir /\ files = <<>> /\ written = <<>>

\* C21: in a run whose input document file does not exist or cannot be
\* loaded, no output directory is created and no module file is written,
\* the run goes on until the process has ended, and it ends with a
\* non-zero exit status; in every run the document has been loaded before
\* the output directory is made or a file is written.
C21_NoOutputWithoutDocument ==
    /\ Unloadable =>
           /\ NoOutput
           /\ pc \in {"argv", "exists", "load", "exited"}
           /\ pc = "exited" => (exit_status # <<>> /\ exit_status[1] # 0)
           /\ pc # "exited" => ENABLED MainNext
    /\ ~NoOutput => (pc \in {"main", "main_done"} /\ tags = spec_file.tags
                       /\ paths = spec_file.paths)

\* A run on a well-formed command line whose file is there but is not JSON
\* has ended with status 1 and has produced nothing
C21_Witness ==
    /\ pc = "exited"
    /\ Len(argv) = 3
    /\ spec_file.kind = "malformed"
    /\ exit_status = <<1>>
    /\ NoOutput


(***************************************************************************)
(* Claims about the coverage checker                                       *)
(***************************************************************************)
\* C22: when the coverage checker has run in strict mode (--fail-on-gaps)
\* and its scoped comparison has found a gap, a documented endpoint that no
\* code calls or a code endpoint that is not documented, the process has
\* ended with a non-zero status.
C22_StrictGapsFail ==
    (pc = "covered" /\ v_args.fail_on_gaps /\ (v_missing # {} \/ v_extra # {}))
        => (v_exit # <<>> /\ v_exit[1] # 0)

====
